---- MODULE Spec2Model ----
(***************************************************************************)
(* Zero-trust overlay network control plane: node registry with overlay    *)
(* IP allocation, agent integrity verifier, configuration version, the     *)
(* node agent's configuration sync, the hub command channel with the hub   *)
(* agent's command dispatch, and the event bus with its handlers.          *)
(*                                                                         *)
(* Overlay addresses are modelled by their offset inside the configured    *)
(* network (offset 2 of 10.0.0.0/24 is "10.0.0.2"); the code compares the   *)
(* str() of ipaddress objects on both sides, which is injective.           *)
(***************************************************************************)
EXTENDS Integers, Sequences, FiniteSets, TLC

\* ------------------------------------------------------------------------
\* Bounds of the model
\* ------------------------------------------------------------------------
MaxHostBits == 3
MaxMismatch == 6
MaxVersion == 3
MaxInbox == 2
MaxCmd == 2
MaxRetry == 1
MaxEvents == 2
MaxAttempts == 2
\* reconnection waits counted since the last successful connect
MaxWaits == 7

Hostnames == {"h1", "h2"}
PublicKeys == {"K1", "K2"}
Roles == {"app", "db"}
Hashes == {"a", "b"}
Versions == {"1.0.0"}
Requests == {1, 2}
Senders == {"t1", "t2"}
Sockets == {"ws1", "ws2", "ws3"}
AgentSockets == {"c1", "c2", "c3"}

\* ------------------------------------------------------------------------
\* Program constants
\* ------------------------------------------------------------------------
HASH_MISMATCH_WARNING_THRESHOLD == 1
HASH_MISMATCH_SUSPEND_THRESHOLD == 3
HASH_MISMATCH_REVOKE_THRESHOLD == 5

None == "none"
NoRow == -1
Statuses == {"pending", "active", "suspended", "revoked"}

\* Candidate role-pair policies (AccessPolicy rows an admin may create)
PolicySpace ==
    { [src_role |-> "app", dst_role |-> "db", port |-> 5432],
      [src_role |-> "db", dst_role |-> "*", port |-> 22] }

VARIABLES
    hostBits,              \* host bits of settings.OVERLAY_NETWORK
    nodes,                 \* Node table, keyed by the unique public_key
    reqs,                  \* register_agent requests between allocate and commit
    policies,              \* AccessPolicy table
    configVersion,         \* ConfigVersion row (NoRow when the table is empty)
    global_expected_hash,  \* AgentIntegrityService.global_expected_hash
    known_good_hashes,     \* AgentIntegrityService.known_good_hashes
    zta,                   \* ZeroTrustAgent (agent/agent.py)
    hc,                    \* HybridClient (agent/node/websocket_client.py)
    inbox,                 \* config_updated frames pushed to the node agent, unread
    hubConn,               \* HubWebSocketManager._connection (its websocket)
    hubLock,               \* HubWebSocketManager._lock (the holder, if any)
    hubCounter,            \* HubWebSocketManager._command_counter
    pending,               \* HubWebSocketManager._pending_commands
    senders,               \* tasks inside send_command and their futures
    sockets,               \* hub_websocket endpoint tasks, one per websocket
    calls,                 \* command name and payload each caller passes to send_command
    toHub,                 \* command frames on their way to the hub agent
    fromHub,               \* frames the hub agent sent, unread by the endpoint
    hubPeers,              \* WireGuard peers configured at the hub
    bus_handlers,          \* EventBus._handlers: event type -> registrations
    bus_tasks,             \* coroutines of the current event waiting in the loop
    bus_log,               \* handler invocations for the current event, in order
    bus_pub,               \* the current publication: variant, context, event
    eventStore,            \* EventStore table: event ids of the rows
    connections,           \* WebSocketManager._connections: hostname -> websocket
    agentTasks,            \* agent_websocket endpoint tasks, one per websocket
    wsClient,              \* HybridClient.run and its WebSocketClient
    hubHandler,            \* hub agent WebSocketHandler: _connected, _current_delay
    chain,                 \* rules of the node's ZT_ACL iptables chain, in order
    peers_cache,           \* hub agent PeerManager._peers_cache
    lastOp                 \* the most recent operation, its arguments and outcome

ipamVars == <<hostBits, reqs>>
intVars == <<global_expected_hash, known_good_hashes>>
cfgVars == <<policies, configVersion>>
agentVars == <<zta, hc, inbox>>
wireVars == <<calls, toHub, fromHub, hubPeers>>
busVars == <<bus_handlers, bus_tasks, bus_log, bus_pub, eventStore>>
wsVars == <<connections, agentTasks>>
edgeVars == <<chain, peers_cache>>
clientVars == <<wsClient, hubHandler, edgeVars>>
hubOnlyVars == <<hubConn, hubLock, hubCounter, pending, senders, sockets, wireVars>>
serverVarsNoWs == <<hostBits, nodes, reqs, policies, configVersion,
                    global_expected_hash, known_good_hashes, zta, hc, inbox,
                    busVars, clientVars>>
hubVars == <<hubConn, hubLock, hubCounter, pending, senders, sockets, wireVars,
             wsVars, clientVars>>

vars == <<hostBits, nodes, reqs, policies, configVersion,
          global_expected_hash, known_good_hashes, zta, hc, inbox,
          hubConn, hubLock, hubCounter, pending, senders, sockets,
          calls, toHub, fromHub, hubPeers,
          bus_handlers, bus_tasks, bus_log, bus_pub, eventStore,
          connections, agentTasks, wsClient, hubHandler, chain, peers_cache,
          lastOp>>

Op(op, key, arg, ok, action, audit) ==
    [op |-> op, key |-> key, arg |-> arg, ok |-> ok, action |-> action,
     audit |-> audit]

\* ------------------------------------------------------------------------
\* IP allocator (core/ipam.py)
\* ------------------------------------------------------------------------
Pow2(n) == IF n = 0 THEN 1 ELSE IF n = 1 THEN 2 ELSE IF n = 2 THEN 4
           ELSE IF n = 3 THEN 8 ELSE IF n = 4 THEN 16 ELSE 32

NetworkSizes == 2 .. MaxHostBits

BroadcastAddress(h) == Pow2(h) - 1


ReservedIps(h) == {0, 1, BroadcastAddress(h)}

UsedIps(ns) == { ns[k].overlay_ip : k \in DOMAIN ns }

PoolExhausted == -1

RECURSIVE ScanHosts(_, _, _, _)
ScanHosts(ip, last, used, reserved) ==
    IF ip > last THEN PoolExhausted
    ELSE IF ip \notin used /\ ip \notin reserved THEN ip
    ELSE ScanHosts(ip + 1, last, used, reserved)

allocate_ip_IgnoreReserved(ns, h) ==
    ScanHosts(1, Pow2(h) - 2, UsedIps(ns), {})

allocate_ip(ns, h) ==
    ScanHosts(1, Pow2(h) - 2, UsedIps(ns), ReservedIps(h))

\* ------------------------------------------------------------------------
\* Registration (api/v1/agent.py register_agent)
\* ------------------------------------------------------------------------
IdleReq == [pc |-> "idle", hostname |-> None, public_key |-> None,
            role |-> None, new_ip |-> 0]

NewNode(h, role, ip) ==
    [hostname |-> h, role |-> role, overlay_ip |-> ip,
     status |-> "pending", is_approved |-> FALSE,
     agent_hash |-> None, last_reported_hash |-> None,
     hash_verified |-> FALSE, hash_mismatch_count |-> 0,
     agent_version |-> None]

\* unique=True columns of the nodes table: hostname, public_key, overlay_ip
UniqueViolation_NoIpCheck(ns, k, h, ip) ==
    \/ k \in DOMAIN ns
    \/ \E m \in DOMAIN ns : ns[m].hostname = h

UniqueViolation(ns, k, h, ip) ==
    \/ k \in DOMAIN ns
    \/ \E m \in DOMAIN ns : ns[m].hostname = h
    \/ \E m \in DOMAIN ns : ns[m].overlay_ip = ip

\* what a registration returns for a node that exists: its id and address
Returned(ns, m) == [public_key |-> m, overlay_ip |-> ns[m].overlay_ip]

existing_agent_NoLookup(ns, k) == {}

\* register_agent: db.query(Node).filter(Node.public_key == ...).first()
existing_agent(ns, k) == { m \in DOMAIN ns : m = k }

\* The request reads the table (duplicate check, allocate_ip) ...
RegisterBegin(r, h, k, role) ==
    /\ reqs[r].pc = "idle"
    /\ IF existing_agent(nodes, k) # {}
       THEN /\ \E m \in existing_agent(nodes, k) :
                  lastOp' = Op("register", k, h, TRUE, "existing",
                               Returned(nodes, m))
            /\ UNCHANGED reqs
       ELSE IF allocate_ip(nodes, hostBits) = PoolExhausted
       THEN /\ lastOp' = Op("register", k, h, FALSE, "pool_exhausted", None)
            /\ UNCHANGED reqs
       ELSE /\ reqs' = [reqs EXCEPT ![r] =
                          [pc |-> "allocated", hostname |-> h, public_key |-> k,
                           role |-> role,
                           new_ip |-> allocate_ip(nodes, hostBits)]]
            /\ lastOp' = Op("allocate_ip", k, h, TRUE, "allocated", None)
    /\ UNCHANGED <<hostBits, nodes, cfgVars, intVars, agentVars, hubVars, busVars>>

\* ... and later commits the new row; the database rejects a duplicate.
RegisterCommit(r) ==
    /\ reqs[r].pc = "allocated"
    /\ LET q == reqs[r] IN
       IF UniqueViolation(nodes, q.public_key, q.hostname, q.new_ip)
       THEN /\ lastOp' = Op("register", q.public_key, q.hostname, FALSE,
                            "integrity_error", None)
            /\ UNCHANGED nodes
       ELSE /\ nodes' = [k \in DOMAIN nodes \cup {q.public_key} |->
                           IF k = q.public_key
                           THEN NewNode(q.hostname, q.role, q.new_ip)
                           ELSE nodes[k]]
            /\ lastOp' = Op("register", q.public_key, q.hostname, TRUE,
                            "created", None)
    /\ reqs' = [reqs EXCEPT ![r] = IdleReq]
    /\ UNCHANGED <<hostBits, cfgVars, intVars, agentVars, hubVars, busVars>>

\* get_agent_config: 404 for an unknown key, 403 until the node is approved
GetAgentConfig(k) ==
    /\ lastOp' = Op("get_agent_config", k, None,
                    k \in DOMAIN nodes /\ nodes[k].is_approved,
                    IF k \notin DOMAIN nodes THEN "404"
                    ELSE IF ~nodes[k].is_approved THEN "403" ELSE "200",
                    None)
    /\ UNCHANGED <<nodes, ipamVars, cfgVars, intVars, agentVars, hubVars,
                   busVars>>

\* ------------------------------------------------------------------------
\* Admin node lifecycle (api/v1/admin.py)
\* ------------------------------------------------------------------------
WithStatus(n, st) ==
    [n EXCEPT !.status = st, !.is_approved = (st = "active")]

UpdatedNode(n, st, role) ==
    LET n1 == IF st # None THEN WithStatus(n, st) ELSE n
    IN  IF role # None THEN [n1 EXCEPT !.role = role] ELSE n1

UpdateNode(k, st, role) ==
    /\ k \in DOMAIN nodes
    /\ nodes' = [nodes EXCEPT ![k] = UpdatedNode(nodes[k], st, role)]
    /\ lastOp' = Op("update_node", k, st, TRUE, role, None)
    /\ UNCHANGED <<ipamVars, cfgVars, intVars, agentVars, hubVars, busVars>>

\* node_manager.approve_node / suspend_node / revoke_node / delete_node
ApproveNode(k) ==
    /\ k \in DOMAIN nodes
    /\ nodes[k].status = "pending"
    /\ nodes' = [nodes EXCEPT ![k] = WithStatus(nodes[k], "active")]
    /\ lastOp' = Op("approve_node", k, None, TRUE, "active", None)
    /\ UNCHANGED <<ipamVars, cfgVars, intVars, agentVars, hubVars, busVars>>

SuspendNode(k) ==
    /\ k \in DOMAIN nodes
    /\ nodes[k].status = "active"
    /\ nodes' = [nodes EXCEPT ![k] = WithStatus(nodes[k], "suspended")]
    /\ lastOp' = Op("suspend_node", k, None, TRUE, "suspended", None)
    /\ UNCHANGED <<ipamVars, cfgVars, intVars, agentVars, hubVars, busVars>>

RevokeNode(k) ==
    /\ k \in DOMAIN nodes
    /\ nodes[k].status # "revoked"
    /\ nodes' = [nodes EXCEPT ![k] = WithStatus(nodes[k], "revoked")]
    /\ lastOp' = Op("revoke_node", k, None, TRUE, "revoked", None)
    /\ UNCHANGED <<ipamVars, cfgVars, intVars, agentVars, hubVars, busVars>>

DeleteNode(k) ==
    /\ k \in DOMAIN nodes
    /\ nodes' = [m \in DOMAIN nodes \ {k} |-> nodes[m]]
    /\ lastOp' = Op("delete_node", k, None, TRUE, "deleted", None)
    /\ UNCHANGED <<ipamVars, cfgVars, intVars, agentVars, hubVars, busVars>>

\* ------------------------------------------------------------------------
\* Registration (api/v1/endpoints.py register, core/node_manager.py)
\* ------------------------------------------------------------------------
SERVER_IP == 1

\* get_next_ip: the first host of the network that no node holds and that
\* is not the server's
get_next_ip(ns, h) ==
    ScanHosts(1, Pow2(h) - 2, UsedIps(ns), {SERVER_IP})

\* register_node: filter((hostname == ...) | (public_key == ...))
existing_node(ns, h, k) ==
    { m \in DOMAIN ns : ns[m].hostname = h \/ m = k }

\* register_node creates the node with is_active=True (auto-approve).
\* The nodes table of database/models.py names that column is_approved, so
\* the constructor refuses the keyword (TypeError); with the column under
\* the name register_node uses, the node is created active.
RegisterNode(h, k, role, accepted) ==
    /\ IF existing_node(nodes, h, k) # {}
       THEN /\ \E m \in existing_node(nodes, h, k) :
                  lastOp' = Op("register_node", k, h, TRUE, "existing",
                               Returned(nodes, m))
            /\ UNCHANGED nodes
       ELSE IF get_next_ip(nodes, hostBits) = PoolExhausted
       THEN /\ lastOp' = Op("register_node", k, h, FALSE, "pool_exhausted",
                            None)
            /\ UNCHANGED nodes
       ELSE IF ~accepted
       THEN /\ lastOp' = Op("register_node", k, h, FALSE, "TypeError", None)
            /\ UNCHANGED nodes
       ELSE /\ nodes' = [m \in DOMAIN nodes \cup {k} |->
                           IF m = k
                           THEN WithStatus(NewNode(h, role,
                                               get_next_ip(nodes, hostBits)),
                                           "active")
                           ELSE nodes[m]]
            /\ lastOp' = Op("register_node", k, h, TRUE, "created", None)
    /\ UNCHANGED <<ipamVars, cfgVars, intVars, agentVars, hubVars, busVars>>

\* ------------------------------------------------------------------------
\* Agent integrity verifier (core/agent_integrity.py)
\* ------------------------------------------------------------------------
get_expected_hash_GlobalFirst(n, kgh, geh) ==
    IF n.agent_hash # None THEN n.agent_hash
    ELSE IF geh # None THEN geh
    ELSE IF n.agent_version # None /\ n.agent_version \in DOMAIN kgh
         THEN kgh[n.agent_version]
    ELSE geh

\* Priority: node-specific > version-specific > global
get_expected_hash(n, kgh, geh) ==
    IF n.agent_hash # None THEN n.agent_hash
    ELSE IF n.agent_version # None /\ n.agent_version \in DOMAIN kgh
         THEN kgh[n.agent_version]
    ELSE geh

MismatchAction_StrictThresholds(count) ==
    IF count > HASH_MISMATCH_REVOKE_THRESHOLD THEN "revoked"
    ELSE IF count > HASH_MISMATCH_SUSPEND_THRESHOLD THEN "suspended"
    ELSE "mismatch_warning"

\* the action taken for the mismatch count just reached
MismatchAction(count) ==
    IF count >= HASH_MISMATCH_REVOKE_THRESHOLD THEN "revoked"
    ELSE IF count >= HASH_MISMATCH_SUSPEND_THRESHOLD THEN "suspended"
    ELSE "mismatch_warning"

Mismatched_Decrement(n) ==
    [n EXCEPT !.hash_verified = FALSE,
              !.hash_mismatch_count = n.hash_mismatch_count - 1]

\* Case 3 of verify_integrity up to the threshold test
Mismatched(n) ==
    [n EXCEPT !.hash_verified = FALSE,
              !.hash_mismatch_count = n.hash_mismatch_count + 1]

\* verify_integrity: the node row after the report, the returned pair and
\* the audit record written
VerifyOutcome(n, reported, kgh, geh) ==
    LET expected == get_expected_hash(n, kgh, geh)
        n1 == [n EXCEPT !.last_reported_hash = reported]
    IN  IF expected = None
        THEN [node |-> [n1 EXCEPT !.hash_verified = FALSE],
              valid |-> TRUE, action |-> "no_expected_hash",
              audit |-> IF n1.agent_hash = None /\ n1.last_reported_hash = None
                        THEN "INTEGRITY_FIRST_REPORT" ELSE None]
        ELSE IF reported = expected
        THEN [node |-> [n1 EXCEPT !.hash_verified = TRUE,
                                  !.hash_mismatch_count = 0],
              valid |-> TRUE, action |-> "verified",
              audit |-> IF ~n1.hash_verified \/ n1.hash_mismatch_count > 0
                        THEN "INTEGRITY_VERIFIED" ELSE None]
        ELSE LET n2 == Mismatched(n1)
                 act == MismatchAction(n2.hash_mismatch_count)
             IN  [node |-> IF act = "mismatch_warning" THEN n2
                           ELSE [n2 EXCEPT !.status = act],
                  valid |-> FALSE, action |-> act,
                  audit |-> "INTEGRITY_MISMATCH"]

VerifyIntegrity(k, reported) ==
    /\ k \in DOMAIN nodes
    /\ nodes[k].hash_mismatch_count < MaxMismatch
    /\ LET out == VerifyOutcome(nodes[k], reported, known_good_hashes,
                                global_expected_hash)
       IN  /\ nodes' = [nodes EXCEPT ![k] = out.node]
           /\ lastOp' = Op("verify_integrity", k, reported, out.valid,
                           out.action, out.audit)
    /\ UNCHANGED <<ipamVars, cfgVars, intVars, agentVars, hubVars, busVars>>

Approved_KeepCount(n) ==
    [n EXCEPT !.agent_hash = n.last_reported_hash, !.hash_verified = TRUE]

Approved(n) ==
    [n EXCEPT !.agent_hash = n.last_reported_hash, !.hash_verified = TRUE,
              !.hash_mismatch_count = 0]

ApproveReportedHash(k) ==
    /\ k \in DOMAIN nodes
    /\ IF nodes[k].last_reported_hash = None
       THEN /\ UNCHANGED nodes
            /\ lastOp' = Op("approve_reported_hash", k, None, FALSE, None, None)
       ELSE /\ nodes' = [nodes EXCEPT ![k] = Approved(nodes[k])]
            /\ lastOp' = Op("approve_reported_hash", k, None, TRUE, None,
                            "INTEGRITY_APPROVED")
    /\ UNCHANGED <<ipamVars, cfgVars, intVars, agentVars, hubVars, busVars>>

\* admin.py set_agent_hash (PUT /nodes/{id}/integrity/hash)
WithAgentHash(n, h) ==
    [n EXCEPT !.agent_hash = h, !.hash_mismatch_count = 0,
              !.hash_verified = (n.last_reported_hash = h)]

SetAgentHash(k, h) ==
    /\ k \in DOMAIN nodes
    /\ nodes' = [nodes EXCEPT ![k] = WithAgentHash(nodes[k], h)]
    /\ lastOp' = Op("set_agent_hash", k, h, TRUE, None, None)
    /\ UNCHANGED <<ipamVars, cfgVars, intVars, agentVars, hubVars, busVars>>

SetGlobalExpectedHash(h) ==
    /\ global_expected_hash' = h
    /\ lastOp' = Op("set_global_expected_hash", None, h, TRUE, None, None)
    /\ UNCHANGED <<nodes, ipamVars, cfgVars, known_good_hashes, agentVars,
                 hubVars, busVars>>

RegisterKnownHash(v, h) ==
    /\ known_good_hashes' = [x \in DOMAIN known_good_hashes \cup {v} |->
                                IF x = v THEN h ELSE known_good_hashes[x]]
    /\ lastOp' = Op("register_known_hash", v, h, TRUE, None, None)
    /\ UNCHANGED <<nodes, ipamVars, cfgVars, global_expected_hash, agentVars,
                 hubVars, busVars>>

\* ------------------------------------------------------------------------
\* Policy compiler (core/policy_engine.py) and forced hub sync
\* ------------------------------------------------------------------------
\* build_config_for_node(db, node)["acl_rules"]
build_config_for_node(ns, pols, t) ==
    LET all_nodes == { k \in DOMAIN ns : ns[k].is_approved }
        matching == { p \in pols :
                        p.dst_role = ns[t].role \/ p.dst_role = "*" }
    IN  { [src_ip |-> ns[s].overlay_ip, port |-> p.port] :
            <<p, s>> \in { x \in matching \X all_nodes :
                             ns[x[2]].role = x[1].src_role } }

\* the peer list trigger_sync sends in sync_peers
SyncPeers(ns) ==
    { [public_key |-> k, allowed_ips |-> <<ns[k].overlay_ip, 32>>] :
        k \in { m \in DOMAIN ns : ns[m].status = "active" } }

\* ------------------------------------------------------------------------
\* Configuration version (core/event_handlers.py, api/v1/admin.py)
\* ------------------------------------------------------------------------
on_config_changed_Decrement(cv) ==
    IF cv # NoRow THEN cv - 1 ELSE cv

\* version = db.query(ConfigVersion).first(); if version: version.version += 1
on_config_changed(cv) ==
    IF cv # NoRow THEN cv + 1 ELSE cv

\* policy_engine.increment_config_version()
increment_config_version(cv) ==
    IF cv = NoRow THEN 1 ELSE cv + 1

\* ws_manager.notify_config_update: one config_updated frame to the agent
\* when it holds a push connection
notify_config_update(box, mode) ==
    IF mode = "ws" THEN box + 1 ELSE box

ConfigEvents == {"NODE_REGISTERED", "NODE_REVOKED", "POLICY_UPDATED"}

\* An event of a type on_config_changed and on_config_changed_ws subscribe to
ConfigEvent(t) ==
    /\ configVersion < MaxVersion
    /\ inbox < MaxInbox
    /\ configVersion' = on_config_changed(configVersion)
    /\ inbox' = notify_config_update(inbox, hc.mode)
    /\ lastOp' = Op("on_config_changed", None, t, TRUE, None, None)
    /\ UNCHANGED <<nodes, ipamVars, intVars, policies, zta, hc, hubVars, busVars>>

CreatePolicy(p) ==
    /\ configVersion < MaxVersion
    /\ p \notin policies
    /\ policies' = policies \cup {p}
    /\ configVersion' = increment_config_version(configVersion)
    /\ lastOp' = Op("create_policy", None, p.port, TRUE, None, None)
    /\ UNCHANGED <<nodes, ipamVars, intVars, agentVars, hubVars, busVars>>

DeletePolicy(p) ==
    /\ configVersion < MaxVersion
    /\ p \in policies
    /\ policies' = policies \ {p}
    /\ configVersion' = increment_config_version(configVersion)
    /\ lastOp' = Op("delete_policy", None, p.port, TRUE, None, None)
    /\ UNCHANGED <<nodes, ipamVars, intVars, agentVars, hubVars, busVars>>

\* ------------------------------------------------------------------------
\* Node agent configuration sync (agent/agent.py, node/websocket_client.py)
\* ------------------------------------------------------------------------
\* fields of schemas.AgentConfig, the response model of the configuration
\* endpoint
AgentConfigFields ==
    {"overlay_ip", "hub_public_key", "hub_endpoint", "peers", "acl_rules"}

\* config.get("config_version", 0) of the configuration the agent fetched
FetchedVersion(cv) ==
    IF "config_version" \in AgentConfigFields /\ cv # NoRow THEN cv ELSE 0

\* ZeroTrustAgent.sync_config, called from the main loop every sync_interval
SyncConfig(ok) ==
    /\ IF ~zta.registered
       THEN /\ lastOp' = Op("sync_config", "zta", 0, FALSE, "not_registered", None)
            /\ UNCHANGED zta
       ELSE IF ~ok
       THEN /\ lastOp' = Op("sync_config", "zta", 0, FALSE, "fetch_failed", None)
            /\ UNCHANGED zta
       ELSE LET new_version == FetchedVersion(configVersion) IN
            IF new_version > zta.current_config_version
            THEN /\ zta' = [zta EXCEPT !.current_config_version = new_version]
                 /\ lastOp' = Op("sync_config", "zta", new_version, TRUE,
                                 "applied", None)
            ELSE /\ lastOp' = Op("sync_config", "zta", new_version, TRUE,
                                 "unchanged", None)
                 /\ UNCHANGED zta
    /\ UNCHANGED <<nodes, ipamVars, intVars, cfgVars, hc, inbox, hubVars, busVars>>

\* HybridClient._handle_config_updated: fetch, then hand the configuration
\* to the config callback
HandleConfigUpdated(ok) ==
    /\ hc.mode = "ws"
    /\ inbox > 0
    /\ inbox' = inbox - 1
    /\ IF ok
       THEN /\ hc' = [hc EXCEPT !.applied = FetchedVersion(configVersion)]
            /\ lastOp' = Op("config_updated", "hc", FetchedVersion(configVersion),
                            TRUE, "applied", None)
       ELSE /\ lastOp' = Op("config_updated", "hc", 0, FALSE, "fetch_failed", None)
            /\ UNCHANGED hc
    /\ UNCHANGED <<nodes, ipamVars, intVars, cfgVars, zta, hubVars, busVars>>

\* HybridClient.run: the push client has returned, polling starts with its
\* local last_version = 0
StartPolling ==
    /\ hc.mode = "ws"
    /\ hc' = [hc EXCEPT !.mode = "poll", !.last_version = 0]
    /\ inbox' = 0
    /\ lastOp' = Op("start_polling", "hc", 0, TRUE, None, None)
    /\ UNCHANGED <<nodes, ipamVars, intVars, cfgVars, zta, hubVars, busVars>>

\* one iteration of HybridClient._poll_config
PollConfig(ok) ==
    /\ hc.mode = "poll"
    /\ IF ~ok
       THEN /\ lastOp' = Op("poll_config", "hc", 0, FALSE, "fetch_failed", None)
            /\ UNCHANGED hc
       ELSE LET version == FetchedVersion(configVersion) IN
            IF version > hc.last_version
            THEN /\ hc' = [hc EXCEPT !.applied = version, !.last_version = version]
                 /\ lastOp' = Op("poll_config", "hc", version, TRUE, "applied", None)
            ELSE /\ lastOp' = Op("poll_config", "hc", version, TRUE, "unchanged",
                                 None)
                 /\ UNCHANGED hc
    /\ UNCHANGED <<nodes, ipamVars, intVars, cfgVars, zta, inbox, hubVars, busVars>>

\* ------------------------------------------------------------------------
\* Hybrid client (agent/node/websocket_client.py HybridClient.run,
\* WebSocketClient.run, connect, _reconnect)
\* ------------------------------------------------------------------------
\* WebSocketConfig.max_reconnect_attempts: 0 = unlimited
max_reconnect_attempts == 0

\* library: whether `import websockets` succeeds on the node; attempts is
\* _reconnect_attempts up to MaxAttempts, odd its parity beyond that
\* WebSocketConfig.reconnect_min_delay, reconnect_max_delay, reconnect_factor
reconnect_min_delay == 1
reconnect_max_delay == 60
reconnect_factor == 2

\* delay is _reconnect_delay in seconds; waits counts the sleeps since the
\* last successful connect (kept up to MaxWaits)
NewClient(library) ==
    [pc |-> "init", attempts |-> 0, odd |-> FALSE, library |-> library,
     delay |-> reconnect_min_delay, waits |-> 0]

Smaller(a, b) == IF a <= b THEN a ELSE b

CountWait(n) == IF n < MaxWaits THEN n + 1 ELSE n

\* _reconnect: min(self._reconnect_delay * factor, reconnect_max_delay)
next_reconnect_delay_Uncapped(delay) == delay * reconnect_factor
next_reconnect_delay(delay) ==
    Smaller(delay * reconnect_factor, reconnect_max_delay)

\* HybridClient.run up to the first await: ImportError sends it to polling,
\* otherwise it awaits WebSocketClient.run
HybridRun ==
    /\ wsClient.pc = "init"
    /\ wsClient' = [wsClient EXCEPT !.pc = IF wsClient.library
                                          THEN "connecting" ELSE "returned"]
    /\ lastOp' = Op("hybrid_run", "hc", None, wsClient.library, None, None)
    /\ UNCHANGED <<nodes, ipamVars, intVars, cfgVars, agentVars, hubOnlyVars,
                   wsVars, busVars, hubHandler, edgeVars>>

\* WebSocketClient.run: connect when not connected
WsConnect(ok) ==
    /\ wsClient.pc = "connecting"
    /\ wsClient' = [wsClient EXCEPT !.pc = IF ok THEN "connected"
                                          ELSE "reconnecting",
                                    !.attempts = IF ok THEN 0 ELSE @,
                                    !.odd = IF ok THEN FALSE ELSE @,
                                    !.delay = IF ok THEN reconnect_min_delay
                                              ELSE @,
                                    !.waits = IF ok THEN 0 ELSE @]
    /\ lastOp' = Op("ws_connect", "hc", None, ok, None, None)
    /\ UNCHANGED <<nodes, ipamVars, intVars, cfgVars, agentVars, hubOnlyVars,
                   wsVars, busVars, hubHandler, edgeVars>>

\* the connection drops: the receive loop ends, run goes to _reconnect
WsDisconnected ==
    /\ wsClient.pc = "connected"
    /\ wsClient' = [wsClient EXCEPT !.pc = "reconnecting"]
    /\ lastOp' = Op("ws_disconnected", "hc", None, TRUE, None, None)
    /\ UNCHANGED <<nodes, ipamVars, intVars, cfgVars, agentVars, hubOnlyVars,
                   wsVars, busVars, hubHandler, edgeVars>>

\* _reconnect: max_attempts > 0 and self._reconnect_attempts >= max_attempts
GivesUp(attempts) ==
    max_reconnect_attempts > 0 /\ attempts >= max_reconnect_attempts

\* one iteration of WebSocketClient._reconnect (the attempt counter is kept
\* up to MaxAttempts): it sleeps _reconnect_delay, recorded in lastOp.audit,
\* then connects
WsReconnect(ok) ==
    /\ wsClient.pc = "reconnecting"
    /\ IF GivesUp(wsClient.attempts)
       THEN /\ wsClient' = [wsClient EXCEPT !.pc = "returned"]
            /\ lastOp' = Op("ws_reconnect", "hc", wsClient.attempts, FALSE,
                            "gave_up", None)
       ELSE /\ wsClient' =
                  [wsClient EXCEPT
                     !.pc = IF ok THEN "connected" ELSE "reconnecting",
                     !.attempts = IF ok THEN 0
                                  ELSE IF @ < MaxAttempts THEN @ + 1 ELSE @,
                     !.odd = IF ok THEN FALSE ELSE ~@,
                     !.delay = IF ok THEN reconnect_min_delay
                               ELSE next_reconnect_delay(@),
                     !.waits = IF ok THEN 0 ELSE CountWait(@)]
            /\ lastOp' = Op("ws_reconnect", "hc", wsClient.attempts, ok,
                            "attempt", wsClient.delay)
    /\ UNCHANGED <<nodes, ipamVars, intVars, cfgVars, agentVars, hubOnlyVars,
                   wsVars, busVars, hubHandler, edgeVars>>

\* HybridClient.run after the push client: polling when it is not connected
HybridFallback ==
    /\ wsClient.pc = "returned"
    /\ hc.mode = "ws"
    /\ wsClient' = [wsClient EXCEPT !.pc = "polling"]
    /\ hc' = [hc EXCEPT !.mode = "poll", !.last_version = 0]
    /\ inbox' = 0
    /\ lastOp' = Op("start_polling", "hc", 0, TRUE, None, None)
    /\ UNCHANGED <<nodes, ipamVars, intVars, cfgVars, zta, hubOnlyVars, wsVars,
                   busVars, hubHandler, edgeVars>>

\* ------------------------------------------------------------------------
\* Hub agent push client (agent/hub/websocket_handler.py WebSocketHandler,
\* driven by HubAgent._run_websocket's `while self._running` loop)
\* ------------------------------------------------------------------------
\* WebSocketHandler.__init__ defaults reconnect_delay, max_reconnect_delay
reconnect_delay == 1
max_reconnect_delay == 60

NewHandler ==
    [connected |-> FALSE, current_delay |-> reconnect_delay, waits |-> 0]

\* the finally block of connect_and_listen: sleep(self._current_delay), then
\* self._current_delay = min(self._current_delay * 2, max_reconnect_delay)
Backoff(h) ==
    [h EXCEPT !.connected = FALSE,
              !.current_delay = Smaller(@ * 2, max_reconnect_delay),
              !.waits = CountWait(@)]

\* connect_and_listen up to the listen loop: a successful connect resets
\* _current_delay; a failed one goes through the except arm to finally
ConnectAndListen(ok) ==
    /\ ~hubHandler.connected
    /\ hubHandler' = IF ok
                     THEN [hubHandler EXCEPT !.connected = TRUE,
                                             !.current_delay = reconnect_delay,
                                             !.waits = 0]
                     ELSE Backoff(hubHandler)
    /\ lastOp' = Op("connect_and_listen", "hub", None, ok,
                    IF ok THEN "connected" ELSE "slept",
                    IF ok THEN None ELSE hubHandler.current_delay)
    /\ UNCHANGED <<nodes, ipamVars, intVars, cfgVars, agentVars, hubOnlyVars,
                   wsVars, busVars, wsClient, edgeVars>>

\* the listen loop ends (connection closed or error): finally
ListenEnds ==
    /\ hubHandler.connected
    /\ hubHandler' = Backoff(hubHandler)
    /\ lastOp' = Op("connect_and_listen", "hub", None, FALSE, "slept",
                    hubHandler.current_delay)
    /\ UNCHANGED <<nodes, ipamVars, intVars, cfgVars, agentVars, hubOnlyVars,
                   wsVars, busVars, wsClient, edgeVars>>

\* ------------------------------------------------------------------------
\* Node firewall (agent/node/firewall/iptables.py IPTablesManager)
\* ------------------------------------------------------------------------
\* an absent address is "", an absent port 0 (both falsy in rule.get)
Slash32 == {"10.0.0.2/32", "10.0.0.3/32"}

AclRule(src_ip, dst_ip, protocol, port) ==
    [src_ip |-> src_ip, dst_ip |-> dst_ip, protocol |-> protocol,
     port |-> port, action |-> "allow"]

AddressScore(ip) == IF ip = "" THEN 0 ELSE IF ip \in Slash32 THEN 100 ELSE 50

\* IPTablesManager._rule_priority
rule_priority(rule) ==
    AddressScore(rule.src_ip) + AddressScore(rule.dst_ip)
    + (IF rule.port # 0 THEN 25 ELSE 0)
    + (IF rule.protocol \notin {"any", "all"} THEN 10 ELSE 0)

\* sorted(rules, key=_rule_priority, reverse=True): a stable sort, equal
\* keys keep their input order
RECURSIVE InsertRule(_, _)
InsertRule(sorted, rule) ==
    IF sorted = << >> THEN <<rule>>
    ELSE IF rule_priority(Head(sorted)) >= rule_priority(rule)
    THEN <<Head(sorted)>> \o InsertRule(Tail(sorted), rule)
    ELSE <<rule>> \o sorted

RECURSIVE sorted_rules(_)
sorted_rules(rules) ==
    IF rules = << >> THEN << >>
    ELSE InsertRule(sorted_rules(SubSeq(rules, 1, Len(rules) - 1)),
                    rules[Len(rules)])

\* the three rules of _add_default_deny, in the order of its commands
Established == [match |-> "ESTABLISHED,RELATED", target |-> "ACCEPT"]
Ping == [match |-> "icmp echo-request", target |-> "ACCEPT"]
DefaultDeny == [match |-> "", target |-> "DROP"]
TrailingRules == <<Established, Ping, DefaultDeny>>

\* the _add_rule loop: a rule whose iptables command fails is logged and
\* skipped (failing holds the positions, in sorted order, that fail)
RECURSIVE AddRules(_, _, _)
AddRules(sorted, failing, i) ==
    IF i > Len(sorted) THEN << >>
    ELSE (IF i \in failing THEN << >> ELSE <<sorted[i]>>)
         \o AddRules(sorted, failing, i + 1)

\* IPTablesManager.apply_rules on the chain: flush_rules and
\* _add_default_deny log their exception and return; trailing is the number
\* of _add_default_deny commands that ran before one failed
apply_rules(old, rules, flushed, failing, trailing) ==
    (IF flushed THEN << >> ELSE old)
    \o AddRules(sorted_rules(rules), failing, 1)
    \o SubSeq(TrailingRules, 1, trailing)

\* every iptables command of the call succeeded
AllCommandsRan(flushed, failing, trailing) ==
    flushed /\ failing = {} /\ trailing = Len(TrailingRules)

\* rule shapes: host source with port, bare source address with port,
\* /32 destination, two networks, and a rule without any match
RuleSpace ==
    {AclRule("10.0.0.2/32", "", "tcp", 5432),
     AclRule("10.0.0.2", "", "tcp", 5432),
     AclRule("", "10.0.0.3/32", "any", 0),
     AclRule("10.0.0.0/24", "10.1.0.0/24", "any", 0),
     AclRule("", "", "any", 0)}

\* the rule lists handed to apply_rules: none, one or two rules
AclLists == UNION { [1 .. n -> RuleSpace] : n \in {0, 1, 2} }

\* the acl_rules of a fetched configuration: none or one rule
ConfigAcl == { rules \in AclLists : Len(rules) <= 1 }

\* the chain is kept up to this length when a flush fails
MaxChain == Len(TrailingRules) + 1

\* firewall.apply_rules(rules) with the outcome of each iptables command
ApplyRules(rules, flushed, failing, trailing) ==
    /\ flushed \/ Len(chain) + Len(rules) + trailing <= MaxChain
    /\ chain' = apply_rules(chain, rules, flushed, failing, trailing)
    /\ lastOp' = Op("apply_rules", "fw", rules,
                    AllCommandsRan(flushed, failing, trailing), None, None)
    /\ UNCHANGED <<nodes, ipamVars, intVars, cfgVars, agentVars, hubOnlyVars,
                   wsVars, busVars, wsClient, hubHandler, peers_cache>>

\* outcome of wg_manager.update_peers: True, False (a wg command failed and
\* was logged), or an exception other than CalledProcessError
PeerOutcomes == {"ok", "failed", "raised"}

\* ZeroTrustAgent.sync_config with the configuration the control plane
\* answered (new_version = config.get("config_version", 0)) and _apply_config,
\* which drops the result of update_peers and gets none from apply_rules
SyncConfigApply(new_version, peers, rules, flushed, failing, trailing) ==
    /\ zta.registered
    /\ flushed \/ Len(chain) + Len(rules) + trailing <= MaxChain
    /\ IF new_version > zta.current_config_version
       THEN IF peers = "raised"
            THEN /\ lastOp' = Op("sync_apply", "zta", new_version, FALSE,
                                 "sync_failed", None)
                 /\ UNCHANGED <<zta, chain>>
            ELSE /\ chain' = apply_rules(chain, rules, flushed, failing,
                                         trailing)
                 /\ zta' = [zta EXCEPT !.current_config_version = new_version]
                 /\ lastOp' = Op("sync_apply", "zta", new_version,
                                 /\ peers = "ok"
                                 /\ AllCommandsRan(flushed, failing, trailing),
                                 "applied", None)
       ELSE /\ lastOp' = Op("sync_apply", "zta", new_version, TRUE,
                            "unchanged", None)
            /\ UNCHANGED <<zta, chain>>
    /\ UNCHANGED <<nodes, ipamVars, intVars, cfgVars, hc, inbox, hubOnlyVars,
                   wsVars, busVars, wsClient, hubHandler, peers_cache>>

\* ------------------------------------------------------------------------
\* Hub command channel (api/v1/hub_websocket.py HubWebSocketManager)
\* ------------------------------------------------------------------------
serverVars == <<hostBits, nodes, reqs, policies, configVersion,
                global_expected_hash, known_good_hashes, zta, hc, inbox,
                busVars, wsVars, clientVars>>
restVars == <<serverVars, calls, toHub, fromHub, hubPeers>>

\* the websocket of the hub agent process (agent/hub); any other socket is
\* a peer whose behaviour is not modelled
HubAgentSocket == "hub"

NoCall == [command |-> None, peers |-> {}]

\* JSON null / an absent id field
NoId == <<"none", 0>>


\* cmd_id = f"cmd_{self._command_counter}"
CmdId(n) == <<"cmd", n>>

\* ids an inbound frame may carry; cmd_0 is never issued
FrameIds == { CmdId(n) : n \in 0 .. MaxCmd }

\* message = {"id": cmd_id, "type": "command", "command": ..., "payload": ...}
CommandFrame(n, call) ==
    [id |-> CmdId(n), type |-> "command", command |-> call.command,
     payload |-> [peers |-> call.peers]]

IdleSender == [pc |-> "idle", cmd |-> 0, future |-> "none"]

\* self._pending_commands[cmd_id] = future
Register(pend, x, s) ==
    [y \in DOMAIN pend \cup {x} |-> IF y = x THEN s ELSE pend[y]]

PopPending_Keep(pend, x) == pend

\* self._pending_commands.pop(cmd_id, None)
PopPending(pend, x) ==
    [y \in DOMAIN pend \ {x} |-> pend[y]]

ResponseMatches_IgnoreDone(x, pend, snd) ==
    x \in DOMAIN pend

\* cmd_id in self._pending_commands and not future.done()
ResponseMatches(x, pend, snd) ==
    /\ x \in DOMAIN pend
    /\ snd[pend[x]].future = "pending"

\* send_command from taking the lock up to the call of send_json
IssueCommand(s) ==
    LET n == hubCounter + 1 IN
    /\ hubCounter' = n
    /\ IF hubConn = None
       THEN /\ pending' = PopPending(Register(pending, CmdId(n), s), CmdId(n))
            /\ senders' = [senders EXCEPT ![s] = IdleSender]
            /\ lastOp' = Op("send_command", s, n, FALSE, "AttributeError", None)
       ELSE /\ pending' = Register(pending, CmdId(n), s)
            /\ senders' = [senders EXCEPT ![s] =
                             [pc |-> "sending", cmd |-> n, future |-> "pending"]]
            /\ lastOp' = Op("send_command", s, n, TRUE, "registered", None)

LockWaiters == { t \in Senders : senders[t].pc = "lock_wait" }

SendCommand(s) ==
    /\ senders[s].pc = "idle"
    /\ hubCounter + Cardinality(LockWaiters) < MaxCmd
    /\ IF hubConn = None
       THEN /\ lastOp' = Op("send_command", s, 0, FALSE, "ConnectionError", None)
            /\ UNCHANGED <<hubCounter, pending, senders>>
       ELSE IF hubLock # None
       THEN /\ senders' = [senders EXCEPT ![s].pc = "lock_wait"]
            /\ lastOp' = Op("send_command", s, 0, TRUE, "lock_wait", None)
            /\ UNCHANGED <<hubCounter, pending>>
       ELSE IssueCommand(s)
    /\ UNCHANGED <<restVars, hubConn, hubLock, sockets>>

SendLocked(s) ==
    /\ senders[s].pc = "lock_wait"
    /\ hubLock = None
    /\ IssueCommand(s)
    /\ UNCHANGED <<restVars, hubConn, hubLock, sockets>>

\* await self._connection.websocket.send_json(message) returns or raises
SendFrame(s, ok) ==
    /\ senders[s].pc = "sending"
    /\ IF ok
       THEN /\ senders' = [senders EXCEPT ![s].pc = "waiting"]
            /\ toHub' = IF hubConn = HubAgentSocket
                         THEN Append(toHub, CommandFrame(senders[s].cmd, calls[s]))
                         ELSE toHub
            /\ lastOp' = Op("send_command", s, senders[s].cmd, TRUE, "sent", None)
            /\ UNCHANGED pending
       ELSE /\ senders' = [senders EXCEPT ![s] = IdleSender]
            /\ pending' = PopPending(pending, CmdId(senders[s].cmd))
            /\ lastOp' = Op("send_command", s, senders[s].cmd, FALSE,
                            "SendError", None)
            /\ UNCHANGED toHub
    /\ UNCHANGED <<serverVars, calls, fromHub, hubPeers, hubConn, hubLock,
                   hubCounter, sockets>>

\* asyncio.wait_for(future, timeout) expires: the future is cancelled
SendTimeout(s) ==
    /\ senders[s].pc = "waiting"
    /\ senders[s].future = "pending"
    /\ senders' = [senders EXCEPT ![s].future = "cancelled"]
    /\ lastOp' = Op("wait_for", s, senders[s].cmd, FALSE, "timeout", None)
    /\ UNCHANGED <<restVars, hubConn, hubLock, hubCounter, pending, sockets>>

Outcome(future) ==
    IF future = "result" THEN "response"
    ELSE IF future = "cancelled" THEN "TimeoutError"
    ELSE "ConnectionError"

\* the sender resumes: return or raise, then the finally clause
SendReturn(s) ==
    /\ senders[s].pc = "waiting"
    /\ senders[s].future # "pending"
    /\ pending' = PopPending(pending, CmdId(senders[s].cmd))
    /\ senders' = [senders EXCEPT ![s] = IdleSender]
    /\ lastOp' = Op("send_command", s, senders[s].cmd,
                    senders[s].future = "result", Outcome(senders[s].future),
                    None)
    /\ UNCHANGED <<restVars, hubConn, hubLock, hubCounter, sockets>>

\* a response / command_result frame read by an endpoint: handle_response
handle_response(w, x) ==
    /\ IF ResponseMatches(x, pending, senders)
       THEN /\ senders' = [senders EXCEPT ![pending[x]].future = "result"]
            /\ lastOp' = Op("handle_response", w, x, TRUE, None, None)
       ELSE /\ lastOp' = Op("handle_response", w, x, FALSE, None, None)
            /\ UNCHANGED senders
    /\ UNCHANGED <<serverVars, hubConn, hubLock, hubCounter, pending, sockets>>

HandleResponse(w, x) ==
    /\ sockets[w] = "open"
    /\ handle_response(w, x)
    /\ UNCHANGED wireVars

\* connect() once the lock is taken: close the connection being replaced
\* (an await, the lock stays held), or install the new one at once
ConnectLocked(w) ==
    IF hubConn # None
    THEN /\ hubLock' = w
         /\ sockets' = [sockets EXCEPT ![w] = "replacing"]
         /\ UNCHANGED hubConn
    ELSE /\ hubConn' = w
         /\ sockets' = [sockets EXCEPT ![w] = "open"]
         /\ UNCHANGED hubLock

\* hub_websocket endpoint: API key check, accept, connect()
HubConnect(w, key_ok) ==
    /\ sockets[w] = "closed"
    /\ IF ~key_ok
       THEN /\ lastOp' = Op("hub_websocket", w, 4001, FALSE, "rejected", None)
            /\ UNCHANGED <<hubConn, hubLock, sockets>>
       ELSE /\ lastOp' = Op("hub_websocket", w, 0, TRUE, "accepted", None)
            /\ IF hubLock # None
               THEN /\ sockets' = [sockets EXCEPT ![w] = "lock_wait"]
                    /\ UNCHANGED <<hubConn, hubLock>>
               ELSE ConnectLocked(w)
    /\ UNCHANGED <<restVars, hubCounter, pending, senders>>

HubConnectAcquire(w) ==
    /\ sockets[w] = "lock_wait"
    /\ hubLock = None
    /\ ConnectLocked(w)
    /\ lastOp' = Op("connect", w, 0, TRUE, "locked", None)
    /\ UNCHANGED <<restVars, hubCounter, pending, senders>>

\* the old websocket is closed (code 1000); self._connection = HubConnection
HubReplace(w) ==
    /\ sockets[w] = "replacing"
    /\ hubConn' = w
    /\ hubLock' = None
    /\ sockets' = [sockets EXCEPT ![w] = "open"]
    /\ lastOp' = Op("connect", w, 1000, TRUE, "replaced", None)
    /\ UNCHANGED <<restVars, hubCounter, pending, senders>>

\* futures disconnect() fails: those in the map that are not done
FailPending(snd, pend) ==
    [s \in DOMAIN snd |->
        IF /\ \E x \in DOMAIN pend : pend[x] = s
           /\ snd[s].future = "pending"
        THEN [snd[s] EXCEPT !.future = "exception"]
        ELSE snd[s]]

\* disconnect() once the lock is taken
DisconnectLocked(w) ==
    /\ sockets' = [sockets EXCEPT ![w] = "closed"]
    /\ IF hubConn # None
       THEN /\ hubConn' = None
            /\ senders' = FailPending(senders, pending)
            /\ pending' = << >>
       ELSE UNCHANGED <<hubConn, senders, pending>>

\* the endpoint's receive loop ends; finally: await disconnect()
HubEndpointExit(w) ==
    /\ sockets[w] = "open"
    /\ lastOp' = Op("hub_websocket", w, 0, TRUE, "exit", None)
    /\ IF hubLock # None
       THEN /\ sockets' = [sockets EXCEPT ![w] = "leaving"]
            /\ UNCHANGED <<hubConn, senders, pending>>
       ELSE DisconnectLocked(w)
    /\ UNCHANGED <<restVars, hubLock, hubCounter>>

HubDisconnectAcquire(w) ==
    /\ sockets[w] = "leaving"
    /\ hubLock = None
    /\ DisconnectLocked(w)
    /\ lastOp' = Op("disconnect", w, 0, TRUE, "locked", None)
    /\ UNCHANGED <<restVars, hubLock, hubCounter>>

\* ------------------------------------------------------------------------
\* Callers of send_command (api/v1/hub_websocket.py REST endpoints)
\* ------------------------------------------------------------------------
\* trigger_sync up to hub_ws_manager.sync_peers(peers)
TriggerSync(s) ==
    /\ senders[s].pc = "idle"
    /\ IF hubConn = None
       THEN /\ lastOp' = Op("trigger_sync", s, 0, FALSE, "not_connected", None)
            /\ UNCHANGED calls
       ELSE /\ calls' = [calls EXCEPT ![s] =
                           [command |-> "sync_peers", peers |-> SyncPeers(nodes)]]
            /\ lastOp' = Op("trigger_sync", s, 0, TRUE, "sync_peers", None)
    /\ UNCHANGED <<serverVars, hubConn, hubLock, hubCounter, pending, senders,
                   sockets, toHub, fromHub, hubPeers>>

\* get_hub_peers up to hub_ws_manager.get_peer_stats()
GetHubPeers(s) ==
    /\ senders[s].pc = "idle"
    /\ IF hubConn = None
       THEN /\ lastOp' = Op("get_hub_peers", s, 0, FALSE, "not_connected", None)
            /\ UNCHANGED calls
       ELSE /\ calls' = [calls EXCEPT ![s] =
                           [command |-> "get_peer_stats", peers |-> {}]]
            /\ lastOp' = Op("get_hub_peers", s, 0, TRUE, "get_peer_stats", None)
    /\ UNCHANGED <<serverVars, hubConn, hubLock, hubCounter, pending, senders,
                   sockets, toHub, fromHub, hubPeers>>

\* ------------------------------------------------------------------------
\* Admin authentication (api/v1/admin.py verify_admin_token) and the
\* dependencies the REST endpoints declare
\* ------------------------------------------------------------------------
ADMIN_SECRET == "secret-admin-token"

\* the X-Admin-Token header of a request: right, wrong, or absent
Tokens == {ADMIN_SECRET, "wrong", None}

\* the outcome of the dependency: passes, 401 for a wrong token, 422 when
\* the required header is missing
verify_admin_token(x_admin_token) ==
    IF x_admin_token = None THEN "422"
    ELSE IF x_admin_token # ADMIN_SECRET THEN "401"
    ELSE "ok"

\* Depends(...) in the signature of each endpoint
Dependencies(endpoint) ==
    IF endpoint \in {"update_node", "approve_node", "suspend_node",
                     "revoke_node", "delete_node"}
    THEN {"verify_admin_token"}
    ELSE IF endpoint \in {"trigger_sync", "get_hub_peers"} THEN {}
    ELSE {}

\* what FastAPI answers before the endpoint body runs
Admission(endpoint, token) ==
    IF "verify_admin_token" \in Dependencies(endpoint)
    THEN verify_admin_token(token)
    ELSE "ok"

Rejected(endpoint, key, token) ==
    /\ lastOp' = Op(endpoint, key, None, FALSE, Admission(endpoint, token), None)
    /\ UNCHANGED <<serverVars, hubOnlyVars>>

\* PATCH /nodes/{id} with the token of the request
UpdateNodeRequest(token, k, st) ==
    IF Admission("update_node", token) # "ok"
    THEN Rejected("update_node", k, token)
    ELSE UpdateNode(k, st, None)

\* POST /hub/sync with the token of the request
TriggerSyncRequest(token, s) ==
    IF Admission("trigger_sync", token) # "ok"
    THEN Rejected("trigger_sync", s, token)
    ELSE TriggerSync(s)

\* GET /hub/peers with the token of the request
GetHubPeersRequest(token, s) ==
    IF Admission("get_hub_peers", token) # "ok"
    THEN Rejected("get_hub_peers", s, token)
    ELSE GetHubPeers(s)

\* ------------------------------------------------------------------------
\* Event handlers that command the hub (api/v1/hub_websocket.py) and the
\* payloads of the events they receive (core/domain_events.py)
\* ------------------------------------------------------------------------
\* node_registered_payload(...) for node k
node_registered_payload(ns, k) ==
    [node_id |-> k, hostname |-> ns[k].hostname, overlay_ip |-> ns[k].overlay_ip,
     public_key |-> k, role |-> ns[k].role, external_ip |-> None]

\* node_status_changed_payload(...) for node k
node_status_changed_payload(ns, k, old_status, new_status) ==
    [node_id |-> k, hostname |-> ns[k].hostname, old_status |-> old_status,
     new_status |-> new_status, reason |-> None, changed_by |-> None]

\* payload.get(key)
PayloadGet(payload, key) ==
    IF key \in DOMAIN payload THEN payload[key] ELSE None

\* hub_ws_manager.add_peer(public_key, allowed_ips) up to send_command
AddPeerCall(public_key, overlay_ip) ==
    [command |-> "add_peer",
     peers |-> {[public_key |-> public_key, allowed_ips |-> <<overlay_ip, 32>>]}]

\* hub_ws_manager.remove_peer(public_key) up to send_command
RemovePeerCall(public_key) ==
    [command |-> "remove_peer", peers |-> {[public_key |-> public_key]}]

\* on_node_registered(event) for a NodeRegistered event about node k, up to
\* hub_ws_manager.add_peer
OnNodeRegistered(s, k) ==
    /\ senders[s].pc = "idle"
    /\ k \in DOMAIN nodes
    /\ LET payload == node_registered_payload(nodes, k) IN
       IF hubConn = None
       THEN /\ lastOp' = Op("on_node_registered", k, s, FALSE, "not_connected",
                            None)
            /\ UNCHANGED calls
       ELSE IF PayloadGet(payload, "status") # "active"
       THEN /\ lastOp' = Op("on_node_registered", k, s, FALSE, "not_active", None)
            /\ UNCHANGED calls
       ELSE /\ calls' = [calls EXCEPT ![s] =
                           AddPeerCall(PayloadGet(payload, "public_key"),
                                       PayloadGet(payload, "overlay_ip"))]
            /\ lastOp' = Op("on_node_registered", k, s, TRUE, "add_peer", None)
    /\ UNCHANGED <<serverVars, hubConn, hubLock, hubCounter, pending, senders,
                   sockets, toHub, fromHub, hubPeers>>

\* on_node_revoked(event) for a NodeRevoked event about node k, up to
\* hub_ws_manager.remove_peer
OnNodeRevoked(s, k) ==
    /\ senders[s].pc = "idle"
    /\ k \in DOMAIN nodes
    /\ LET payload == node_status_changed_payload(nodes, k, nodes[k].status,
                                                  "revoked") IN
       IF hubConn = None
       THEN /\ lastOp' = Op("on_node_revoked", k, s, FALSE, "not_connected", None)
            /\ UNCHANGED calls
       ELSE /\ calls' = [calls EXCEPT ![s] =
                           RemovePeerCall(PayloadGet(payload, "public_key"))]
            /\ lastOp' = Op("on_node_revoked", k, s, TRUE, "remove_peer", None)
    /\ UNCHANGED <<serverVars, hubConn, hubLock, hubCounter, pending, senders,
                   sockets, toHub, fromHub, hubPeers>>

\* ------------------------------------------------------------------------
\* Hub agent (agent/hub/websocket_handler.py, command_executor.py,
\* wireguard/peer_manager.py)
\* ------------------------------------------------------------------------
\* CommandExecutor._handlers
Handlers ==
    {"add_peer", "remove_peer", "update_peer", "sync_peers", "get_peers",
     "get_status", "get_peer_stats", "restart_interface", "ping"}

\* message.get(key) for the id fields of a frame
GetId(f, key) ==
    IF key \in DOMAIN f THEN f[key] ELSE NoId

NoCounts == [added |-> 0, removed |-> 0, updated |-> 0, unchanged |-> 0,
             total |-> 0]

\* PeerManager.sync_peers with every tunnel operation succeeding: the peers
\* afterwards and the counts returned
sync_peers(current, desired) ==
    LET desired_keys == { p.public_key : p \in desired }
        want(k) == (CHOOSE p \in desired : p.public_key = k).allowed_ips
        stale == DOMAIN current \ desired_keys
        missing == desired_keys \ DOMAIN current
        common == desired_keys \cap DOMAIN current
        changed == { k \in common : current[k] # want(k) }
    IN  [peers |-> [k \in desired_keys |-> want(k)],
         counts |-> [added |-> Cardinality(missing),
                     removed |-> Cardinality(stale),
                     updated |-> Cardinality(changed),
                     unchanged |-> Cardinality(common \ changed),
                     total |-> Cardinality(desired_keys)]]

\* PeerManager.sync_peers when the wg commands for the keys in failing exit
\* non-zero: WireGuardManager.add_peer / remove_peer log and return False,
\* which PeerManager.remove_peer / add_peer / update_peer hand back and
\* sync_peers does not read; errors collects only raised exceptions
sync_peers_outcome(current, desired, failing) ==
    LET desired_keys == { p.public_key : p \in desired }
        want(k) == (CHOOSE p \in desired : p.public_key = k).allowed_ips
        stale == DOMAIN current \ desired_keys
        missing == desired_keys \ DOMAIN current
        common == desired_keys \cap DOMAIN current
        changed == { k \in common : current[k] # want(k) }
        kept == (DOMAIN current \ (stale \ failing)) \cup (missing \ failing)
    IN  [peers |-> [k \in kept |->
                      IF k \in desired_keys /\ k \notin failing
                      THEN want(k) ELSE current[k]],
         cache |-> [k \in desired_keys |-> want(k)],
         failed |-> failing \cap (stale \cup missing \cup changed),
         errors |-> {},
         counts |-> [added |-> Cardinality(missing),
                     removed |-> Cardinality(stale),
                     updated |-> Cardinality(changed),
                     unchanged |-> Cardinality(common \ changed),
                     total |-> Cardinality(desired_keys)]]

\* CommandExecutor._handle_sync_peers: one sync_peers call on the tunnel
SyncPeersCommand(desired, failing) ==
    /\ LET out == sync_peers_outcome(hubPeers, desired, failing)
       IN  /\ hubPeers' = out.peers
           /\ peers_cache' = out.cache
           /\ lastOp' = Op("sync_peers", "hub", out.failed, out.failed = {},
                           "done",
                           [counts |-> out.counts, errors |-> out.errors,
                            attempted |-> out.counts.total
                                          - out.counts.unchanged
                                          + out.counts.removed])
    /\ UNCHANGED <<nodes, ipamVars, intVars, cfgVars, agentVars, busVars,
                   wsVars, wsClient, hubHandler, chain, hubConn, hubLock,
                   hubCounter, pending, senders, sockets, calls, toHub,
                   fromHub>>

\* CommandExecutor.execute(command_type, payload)
execute(command_type, payload, peers) ==
    IF command_type \notin Handlers
    THEN [success |-> FALSE, handler |-> None, peers |-> peers,
          data |-> NoCounts]
    ELSE IF command_type = "sync_peers"
    THEN [success |-> TRUE, handler |-> command_type,
          peers |-> sync_peers(peers, payload.peers).peers,
          data |-> sync_peers(peers, payload.peers).counts]
    ELSE [success |-> TRUE, handler |-> command_type, peers |-> peers,
          data |-> NoCounts]

\* WebSocketHandler._handle_message on the next frame from the control plane
HubHandleMessage ==
    /\ toHub # << >>
    /\ LET message == Head(toHub)
           msg_type == message.type
           command_id == GetId(message, "command_id")
           result == execute(msg_type, message.payload, hubPeers)
       IN  /\ hubPeers' = result.peers
           /\ fromHub' = Append(fromHub,
                            [type |-> "command_result",
                             command_id |-> command_id,
                             success |-> result.success,
                             data |-> result.data])
           /\ lastOp' = Op("_handle_message", result.handler, command_id,
                           result.success, msg_type, None)
    /\ toHub' = Tail(toHub)
    /\ UNCHANGED <<serverVars, hubConn, hubLock, hubCounter, pending, senders,
                   sockets, calls>>

\* hub_websocket receive loop on the next frame from the hub agent:
\* cmd_id = message.get("id") or message.get("command_id")
EndpointReceive ==
    /\ sockets[HubAgentSocket] = "open"
    /\ fromHub # << >>
    /\ fromHub' = Tail(fromHub)
    /\ LET message == Head(fromHub)
           cmd_id == IF GetId(message, "id") # NoId THEN GetId(message, "id")
                     ELSE GetId(message, "command_id")
       IN  IF message.type \in {"response", "command_result"} /\ cmd_id # NoId
           THEN handle_response(HubAgentSocket, cmd_id)
           ELSE /\ lastOp' = Op("hub_websocket", HubAgentSocket, cmd_id, FALSE,
                                "no_id", None)
                /\ UNCHANGED <<serverVars, hubConn, hubLock, hubCounter, pending,
                               senders, sockets>>
    /\ UNCHANGED <<calls, toHub, hubPeers>>

\* ------------------------------------------------------------------------
\* Event bus (core/events.py) and its handlers (core/event_handlers.py)
\* ------------------------------------------------------------------------
HIGH == 1
NORMAL == 5
LOW == 10
EventPriority == {HIGH, NORMAL, LOW}

\* default retry_count of EventBus.subscribe
DefaultRetryCount == 3

\* class EventTypes
EventTypes ==
    {"NodeRegistered", "NodeApproved", "NodeActivated", "NodeSuspended",
     "NodeRevoked", "NodeHeartbeat", "NodeOffline", "NodeConfigSynced",
     "IPAllocated", "IPReleased", "IPPoolLow", "IPPoolExhausted",
     "ClientDeviceCreated", "ClientDeviceActivated", "ClientDeviceSuspended",
     "ClientDeviceRevoked", "ClientDeviceExpired", "ClientConfigDownloaded",
     "PolicyCreated", "PolicyUpdated", "PolicyDeleted", "PolicyApplied",
     "TrustScoreChanged", "TrustThresholdBreach",
     "SecurityAlert", "UnauthorizedAccess", "AuthenticationFailed",
     "UserCreated", "UserUpdated", "UserSuspended", "UserDeleted",
     "GroupCreated", "GroupUpdated", "GroupDeleted", "UserAddedToGroup",
     "UserRemovedFromGroup",
     "ConfigVersionIncremented", "WireGuardPeerAdded", "WireGuardPeerRemoved",
     "WireGuardConfigUpdated"}

\* handlers a component may subscribe: plain functions and coroutine functions
SyncHandlers == {"s1"}
AsyncHandlers == {"a1"}
BusHandlers == SyncHandlers \cup AsyncHandlers

\* the `async def` handlers of api/v1/websocket.py
PushHandlers == {"on_config_changed_ws", "on_node_status_changed_ws"}

\* asyncio.iscoroutinefunction(handler)
iscoroutinefunction(h) == h \in AsyncHandlers \cup PushHandlers

\* handlers of event_handlers.py that let an exception out (they re-raise);
\* persist_event and on_config_changed catch everything, audit_handler and
\* the monitors only log
CanThrow(h) ==
    h \in BusHandlers \cup {"on_node_registered", "on_node_revoked",
                           "on_client_device_created", "on_client_device_revoked"}

\* self._handlers[event_type].sort(key=lambda r: r.priority.value); list.sort
\* is stable
RECURSIVE SortByPriority(_)
SortByPriority(s) ==
    IF Len(s) <= 1 THEN s
    ELSE LET front == SortByPriority(SubSeq(s, 1, Len(s) - 1))
             r == s[Len(s)]
             n == Cardinality({ i \in 1 .. Len(front) :
                                  front[i].priority <= r.priority })
         IN  SubSeq(front, 1, n) \o <<r>> \o SubSeq(front, n + 1, Len(front))

HandlersOf(hs, t) == IF t \in DOMAIN hs THEN hs[t] ELSE << >>

\* EventBus.subscribe; order is the position of the call among the
\* subscriptions of the event type
subscribe(hs, t, h, priority, retry_count) ==
    LET old == HandlersOf(hs, t)
        registration == [handler |-> h, priority |-> priority,
                         is_async |-> iscoroutinefunction(h),
                         retry_count |-> retry_count, order |-> Len(old) + 1]
        new == SortByPriority(Append(old, registration))
    IN  [x \in DOMAIN hs \cup {t} |-> IF x = t THEN new ELSE hs[x]]

\* a coroutine handed to the event loop: limit is the number of attempts its
\* code makes (create_task(handler(event)) has no retry loop around it)
Task(h, limit) == [handler |-> h, attempts |-> 0, limit |-> limit, done |-> FALSE]

Invocations(h, n, f) == [i \in 1 .. n |-> [handler |-> h, ok |-> i > f]]

execute_handler_sync_Reraise(registration, f, ctx) ==
    LET tries == registration.retry_count + 1
        n == IF f < tries THEN f + 1 ELSE tries
    IN  IF registration.is_async /\ ctx = "running"
        THEN [calls |-> << >>, tasks |-> <<Task(registration.handler, 1)>>,
              raised |-> FALSE]
        ELSE IF registration.is_async /\ ctx = "none"
        THEN [calls |-> << >>, tasks |-> << >>, raised |-> FALSE]
        ELSE [calls |-> Invocations(registration.handler, n, f),
              tasks |-> << >>, raised |-> f >= tries]

\* EventBus._execute_handler_sync when the handler throws on its first f
\* attempts. ctx is what asyncio.get_event_loop() finds: a running loop
\* (create_task), a loop that is not running (run_until_complete), or no
\* loop at all (RuntimeError on every attempt, the handler is never called)
execute_handler_sync(registration, f, ctx) ==
    LET tries == registration.retry_count + 1
        n == IF f < tries THEN f + 1 ELSE tries
    IN  IF registration.is_async /\ ctx = "running"
        THEN [calls |-> << >>, tasks |-> <<Task(registration.handler, 1)>>,
              raised |-> FALSE]
        ELSE IF registration.is_async /\ ctx = "none"
        THEN [calls |-> << >>, tasks |-> << >>, raised |-> FALSE]
        ELSE [calls |-> Invocations(registration.handler, n, f),
              tasks |-> << >>, raised |-> FALSE]

\* the coroutine EventBus._execute_handler_async(registration, event)
execute_handler_async(registration) ==
    [calls |-> << >>,
     tasks |-> <<Task(registration.handler, registration.retry_count + 1)>>,
     raised |-> FALSE]

\* the for loop of publish / publish_async over the registrations; an
\* exception out of one iteration ends the loop
RECURSIVE RunHandlers(_, _, _, _)
RunHandlers(regs, fails, variant, ctx) ==
    IF regs = << >> THEN [calls |-> << >>, tasks |-> << >>, raised |-> FALSE]
    ELSE LET registration == Head(regs)
             one == IF variant = "publish_async" /\ registration.is_async
                    THEN execute_handler_async(registration)
                    ELSE execute_handler_sync(registration, Head(fails), ctx)
             rest == IF one.raised
                     THEN [calls |-> << >>, tasks |-> << >>, raised |-> TRUE]
                     ELSE RunHandlers(Tail(regs), Tail(fails), variant, ctx)
         IN  [calls |-> one.calls \o rest.calls,
              tasks |-> one.tasks \o rest.tasks,
              raised |-> rest.raised]

\* attempts the handler of a registration can fail inside the publish call
MaxFails(registration, variant, ctx) ==
    IF ~CanThrow(registration.handler) THEN 0
    ELSE IF registration.is_async /\ (variant = "publish_async" \/ ctx # "stopped")
    THEN 0
    ELSE registration.retry_count + 1

\* what the handlers of one publication may do: for each registration the
\* number of leading attempts that throw
RECURSIVE FailChoices(_, _, _)
FailChoices(regs, variant, ctx) ==
    IF regs = << >> THEN { << >> }
    ELSE { <<f>> \o rest : f \in 0 .. MaxFails(Head(regs), variant, ctx),
                           rest \in FailChoices(Tail(regs), variant, ctx) }

Invoked(log, h) == \E i \in 1 .. Len(log) : log[i].handler = h

\* persist_event: one EventStore row with the event's id
persist_event(store, log, event_id) ==
    IF Invoked(log, "persist_event") THEN store \cup {event_id} ELSE store

AllDone(tasks) == \A i \in 1 .. Len(tasks) : tasks[i].done

NoPublication ==
    [variant |-> None, ctx |-> None, type |-> None, id |-> 0, state |-> "idle"]

\* event_bus.subscribe(event_type, handler, priority, retry_count), while the
\* application starts
Subscribe(t, h, priority, retry_count) ==
    /\ bus_pub.state = "idle"
    /\ \A i \in 1 .. Len(HandlersOf(bus_handlers, t)) :
          bus_handlers[t][i].handler # h
    /\ bus_handlers' = subscribe(bus_handlers, t, h, priority, retry_count)
    /\ lastOp' = Op("subscribe", t, h, TRUE, priority, None)
    /\ UNCHANGED <<nodes, ipamVars, intVars, cfgVars, agentVars, hubVars,
                   bus_tasks, bus_log, bus_pub, eventStore>>

\* EventBus.publish (variant "publish") and EventBus.publish_async up to its
\* gather, for a new Event of type t
Publish(variant, t, ctx) ==
    /\ bus_pub.id < MaxEvents
    /\ AllDone(bus_tasks)
    /\ variant = "publish_async" => ctx = "running"
    /\ LET regs == HandlersOf(bus_handlers, t)
           event_id == bus_pub.id + 1
       IN  \E fails \in FailChoices(regs, variant, ctx) :
             /\ LET run == RunHandlers(regs, fails, variant, ctx) IN
                /\ bus_log' = run.calls
                /\ bus_tasks' = run.tasks
                /\ bus_pub' = [variant |-> variant, ctx |-> ctx, type |-> t,
                               id |-> event_id,
                               state |-> IF run.raised THEN "raised"
                                         ELSE IF variant = "publish_async"
                                                 /\ run.tasks # << >>
                                         THEN "gathering"
                                         ELSE "returned"]
                /\ eventStore' = persist_event(eventStore, run.calls, event_id)
                /\ configVersion' = IF Invoked(run.calls, "on_config_changed")
                                    THEN on_config_changed(configVersion)
                                    ELSE configVersion
                /\ lastOp' = Op(variant, t, event_id, ~run.raised, ctx, None)
    /\ UNCHANGED <<nodes, ipamVars, intVars, policies, agentVars, hubVars,
                   bus_handlers>>

\* the event loop runs a coroutine of the current event up to its next
\* suspension: one call of the handler. Tasks start in the order they were
\* handed to the loop; a task that failed sleeps retry_delay and tries again
TaskStep(i, ok) ==
    /\ i \in 1 .. Len(bus_tasks)
    /\ ~bus_tasks[i].done
    /\ \A j \in 1 .. Len(bus_tasks) :
          (j < i \/ bus_tasks[i].attempts > 0) => bus_tasks[j].attempts > 0
    /\ LET t == bus_tasks[i]
           after == [t EXCEPT !.attempts = @ + 1,
                              !.done = ok \/ t.attempts + 1 >= t.limit]
           tasks == [bus_tasks EXCEPT ![i] = after]
       IN  /\ bus_tasks' = tasks
           /\ bus_log' = Append(bus_log, [handler |-> t.handler, ok |-> ok])
           /\ bus_pub' = IF bus_pub.state = "gathering" /\ AllDone(tasks)
                         THEN [bus_pub EXCEPT !.state = "returned"]
                         ELSE bus_pub
           /\ lastOp' = Op("handler_task", t.handler, t.attempts + 1, ok, None,
                           None)
    /\ UNCHANGED <<nodes, ipamVars, intVars, cfgVars, agentVars, hubVars,
                   bus_handlers, eventStore>>

\* the subscribe calls of register_event_handlers, in the order of the code
PersistedTypes ==
    <<"NodeRegistered", "NodeApproved", "NodeSuspended", "NodeRevoked",
      "ClientDeviceCreated", "ClientDeviceRevoked", "PolicyCreated",
      "PolicyUpdated", "PolicyDeleted", "SecurityAlert", "TrustScoreChanged",
      "IPAllocated", "IPPoolLow", "UserCreated", "UserUpdated",
      "UserSuspended", "UserDeleted", "GroupCreated", "GroupUpdated",
      "GroupDeleted", "UserAddedToGroup", "UserRemovedFromGroup">>

RegisteredSubscriptions ==
    [i \in 1 .. Len(PersistedTypes) |-> <<PersistedTypes[i], "persist_event", HIGH>>]
    \o <<
      <<"NodeRegistered", "audit_handler", HIGH>>,
      <<"NodeRevoked", "audit_handler", HIGH>>,
      <<"ClientDeviceCreated", "audit_handler", HIGH>>,
      <<"ClientDeviceRevoked", "audit_handler", HIGH>>,
      <<"PolicyUpdated", "audit_handler", HIGH>>,
      <<"SecurityAlert", "audit_handler", HIGH>>,
      <<"NodeRegistered", "on_node_registered", NORMAL>>,
      <<"NodeRevoked", "on_node_revoked", NORMAL>>,
      <<"ClientDeviceCreated", "on_client_device_created", NORMAL>>,
      <<"ClientDeviceRevoked", "on_client_device_revoked", NORMAL>>,
      <<"NodeRegistered", "on_config_changed", LOW>>,
      <<"NodeRevoked", "on_config_changed", LOW>>,
      <<"PolicyUpdated", "on_config_changed", LOW>>,
      <<"TrustScoreChanged", "on_trust_score_changed", NORMAL>>,
      <<"IPPoolLow", "on_ip_pool_low", HIGH>>
    >>

RECURSIVE SubscribeAll(_, _)
SubscribeAll(hs, calls_) ==
    IF calls_ = << >> THEN hs
    ELSE LET c == Head(calls_)
         IN  SubscribeAll(subscribe(hs, c[1], c[2], c[3], DefaultRetryCount),
                          Tail(calls_))

register_event_handlers == SubscribeAll(<< >>, RegisteredSubscriptions)

\* the subscribe calls of register_websocket_handlers, in the order of the
\* code
PushSubscriptions ==
    << <<"PolicyUpdated", "on_config_changed_ws", NORMAL>>,
       <<"NodeRegistered", "on_config_changed_ws", LOW>>,
       <<"NodeRevoked", "on_config_changed_ws", LOW>>,
       <<"NodeSuspended", "on_node_status_changed_ws", NORMAL>> >>

register_websocket_handlers(hs) == SubscribeAll(hs, PushSubscriptions)

\* ------------------------------------------------------------------------
\* Node agent channels (api/v1/websocket.py WebSocketManager)
\* ------------------------------------------------------------------------
NoTask == [state |-> "idle", hostname |-> None, code |-> 0]

InitWs ==
    /\ connections = << >>
    /\ agentTasks = [w \in AgentSockets |-> NoTask]
    /\ wsClient = NewClient(TRUE)
    /\ hubHandler = NewHandler
    /\ chain = << >>
    /\ peers_cache = << >>

\* websocket.close(code): closing a closed websocket raises, which connect
\* swallows
CloseSocket(tasks, w, code) ==
    IF tasks[w].state = "open"
    THEN [tasks EXCEPT ![w].state = "closed", ![w].code = code]
    ELSE tasks

ws_disconnect_KeepEntry(conns, hostname) == conns

\* WebSocketManager.disconnect: del self._connections[hostname]
ws_disconnect(conns, hostname) ==
    [h \in DOMAIN conns \ {hostname} |-> conns[h]]

\* WebSocketManager.connect: close the channel registered for the hostname,
\* then register the new one
ws_connect(conns, w, hostname) ==
    [h \in DOMAIN conns \cup {hostname} |->
        IF h = hostname THEN w ELSE conns[h]]

\* agent_websocket up to its receive loop: authenticate by hostname, public
\* key and active status, then ws_manager.connect
AgentConnect(w, hostname, k) ==
    /\ agentTasks[w].state = "idle"
    /\ IF k \in DOMAIN nodes /\ nodes[k].hostname = hostname
          /\ nodes[k].status = "active"
       THEN /\ connections' = ws_connect(connections, w, hostname)
            /\ agentTasks' =
                  [(IF hostname \in DOMAIN connections
                    THEN CloseSocket(agentTasks, connections[hostname], 1000)
                    ELSE agentTasks)
                   EXCEPT ![w] = [state |-> "open", hostname |-> hostname,
                                  code |-> 0]]
            /\ lastOp' = Op("agent_connect", hostname, w, TRUE,
                            IF hostname \in DOMAIN connections
                            THEN connections[hostname] ELSE None, None)
       ELSE /\ agentTasks' = [agentTasks EXCEPT ![w] =
                                [state |-> "done", hostname |-> hostname,
                                 code |-> 4001]]
            /\ lastOp' = Op("agent_connect", hostname, w, FALSE, None, None)
            /\ UNCHANGED connections
    /\ UNCHANGED <<serverVarsNoWs, hubOnlyVars>>

\* the node agent closes its channel; receive_text raises in the handler
AgentClose(w) ==
    /\ agentTasks[w].state = "open"
    /\ agentTasks' = [agentTasks EXCEPT ![w].state = "closed", ![w].code = 1001]
    /\ lastOp' = Op("agent_close", agentTasks[w].hostname, w, TRUE, None, None)
    /\ UNCHANGED <<serverVarsNoWs, hubOnlyVars, connections>>

\* agent_websocket's finally block: ws_manager.disconnect(hostname)
AgentHandlerExit(w) ==
    /\ agentTasks[w].state = "closed"
    /\ connections' = ws_disconnect(connections, agentTasks[w].hostname)
    /\ agentTasks' = [agentTasks EXCEPT ![w].state = "done"]
    /\ lastOp' = Op("agent_disconnect", agentTasks[w].hostname, w, TRUE,
                    None, None)
    /\ UNCHANGED <<serverVarsNoWs, hubOnlyVars>>

\* websocket.send_json succeeds on an open websocket whose link works
SendSucceeds(tasks, w, hostname, broken) ==
    tasks[w].state = "open" /\ hostname \notin broken

StartSends(conns) ==
    [conns |-> conns, count |-> 0, attempted |-> {}, delivered |-> {}]

\* the running result of a sequence of sends: the connection map, the
\* number of successful sends, the websockets tried and reached
SendOne(acc, w, hostname, tasks, broken) ==
    IF SendSucceeds(tasks, w, hostname, broken)
    THEN [acc EXCEPT !.count = acc.count + 1,
                     !.attempted = acc.attempted \cup {w},
                     !.delivered = acc.delivered \cup {w}]
    ELSE [acc EXCEPT !.conns = ws_disconnect(acc.conns, hostname),
                     !.attempted = acc.attempted \cup {w}]

\* send_to_agent: False without a send when the hostname has no channel
send_to_agent(acc, hostname, tasks, broken) ==
    IF hostname \notin DOMAIN acc.conns THEN acc
    ELSE SendOne(acc, acc.conns[hostname], hostname, tasks, broken)

RECURSIVE SendToEach(_, _, _, _)
SendToEach(acc, hostnames, tasks, broken) ==
    IF hostnames = {} THEN acc
    ELSE LET h == CHOOSE x \in hostnames : TRUE
         IN  SendToEach(send_to_agent(acc, h, tasks, broken),
                        hostnames \ {h}, tasks, broken)

\* broadcast: a snapshot of the map, then one send per entry of it
RECURSIVE BroadcastEach(_, _, _, _, _)
BroadcastEach(acc, targets, snapshot, tasks, broken) ==
    IF targets = {} THEN acc
    ELSE LET h == CHOOSE x \in targets : TRUE
         IN  BroadcastEach(SendOne(acc, snapshot[h], h, tasks, broken),
                           targets \ {h}, snapshot, tasks, broken)

broadcast(conns, tasks, broken) ==
    BroadcastEach(StartSends(conns), DOMAIN conns, conns, tasks,
                  broken)

AllAgents == [all |-> TRUE, hostnames |-> {}]
Listed(hs) == [all |-> FALSE, hostnames |-> hs]

ws_notify_config_update(conns, affected_hostnames, tasks, broken) ==
    IF affected_hostnames.all
    THEN broadcast(conns, tasks, broken)
    ELSE SendToEach(StartSends(conns),
                    affected_hostnames.hostnames, tasks, broken)

NotifyConfigUpdate(affected_hostnames, broken) ==
    /\ LET out == ws_notify_config_update(connections, affected_hostnames,
                                          agentTasks, broken)
       IN  /\ connections' = out.conns
           /\ lastOp' = Op("notify_config_update", None, affected_hostnames,
                           TRUE, "sent",
                           [count |-> out.count, attempted |-> out.attempted,
                            delivered |-> out.delivered])
    /\ UNCHANGED <<serverVarsNoWs, hubOnlyVars, agentTasks>>

\* on_node_status_changed_ws for a NodeSuspended event: one status_changed
\* frame through send_to_agent
OnNodeStatusChanged(hostname, broken) ==
    /\ LET out == send_to_agent(StartSends(connections), hostname, agentTasks,
                                broken)
       IN  /\ connections' = out.conns
           /\ lastOp' = Op("status_changed", hostname, None, TRUE, "sent",
                           [count |-> out.count, attempted |-> out.attempted,
                            delivered |-> out.delivered])
    /\ UNCHANGED <<serverVarsNoWs, hubOnlyVars, agentTasks>>

\* ------------------------------------------------------------------------
\* Specification of the registry: registration, lifecycle, deletion
\* ------------------------------------------------------------------------
InitBus ==
    /\ bus_handlers = << >>
    /\ bus_tasks = << >>
    /\ bus_log = << >>
    /\ bus_pub = NoPublication
    /\ eventStore = {}

InitHub ==
    /\ hubConn = None
    /\ hubLock = None
    /\ hubCounter = 0
    /\ pending = << >>
    /\ senders = [s \in Senders |-> IdleSender]
    /\ sockets = [w \in Sockets |-> "closed"]
    /\ calls = [s \in Senders |-> NoCall]
    /\ toHub = << >>
    /\ fromHub = << >>
    /\ hubPeers = << >>

InitAgents ==
    /\ zta = [registered |-> TRUE, current_config_version |-> 0]
    /\ hc = [mode |-> "ws", last_version |-> 0, applied |-> 0]
    /\ inbox = 0
    /\ InitHub
    /\ InitBus

Init ==
    /\ hostBits \in NetworkSizes
    /\ nodes = << >>
    /\ reqs = [r \in Requests |-> IdleReq]
    /\ policies = {}
    /\ configVersion = 0
    /\ global_expected_hash = None
    /\ known_good_hashes = << >>
    /\ InitAgents
    /\ InitWs
    /\ lastOp = Op("init", None, None, TRUE, None, None)

Next ==
    \/ \E r \in Requests, h \in Hostnames, k \in PublicKeys, role \in Roles :
          RegisterBegin(r, h, k, role)
    \/ \E r \in Requests : RegisterCommit(r)
    \/ \E k \in PublicKeys, st \in Statuses : UpdateNode(k, st, None)
    \/ \E k \in PublicKeys : ApproveNode(k)
    \/ \E k \in PublicKeys : SuspendNode(k)
    \/ \E k \in PublicKeys : RevokeNode(k)
    \/ \E k \in PublicKeys : DeleteNode(k)

Spec == Init /\ [][Next]_vars

\* ------------------------------------------------------------------------
\* Specification of enrolment: both registration endpoints, the agent's
\* configuration fetch and the admin's lifecycle operations
\* ------------------------------------------------------------------------
InitEnrol ==
    /\ hostBits = MaxHostBits
    /\ nodes = << >>
    /\ reqs = [r \in Requests |-> IdleReq]
    /\ policies = {}
    /\ configVersion = 0
    /\ global_expected_hash = None
    /\ known_good_hashes = << >>
    /\ InitAgents
    /\ InitWs
    /\ lastOp = Op("init", None, None, TRUE, None, None)

\* one agent enrols at a time
EnrolRequests == {1}

NextEnrol ==
    \/ \E r \in EnrolRequests, h \in Hostnames, k \in PublicKeys, role \in Roles :
          RegisterBegin(r, h, k, role)
    \/ \E r \in EnrolRequests : RegisterCommit(r)
    \/ \E h \in Hostnames, k \in PublicKeys, role \in Roles,
          accepted \in BOOLEAN : RegisterNode(h, k, role, accepted)
    \/ \E k \in PublicKeys : GetAgentConfig(k)
    \/ \E k \in PublicKeys, st \in Statuses : UpdateNode(k, st, None)
    \/ \E k \in PublicKeys : ApproveNode(k)
    \/ \E k \in PublicKeys : SuspendNode(k)
    \/ \E k \in PublicKeys : RevokeNode(k)

SpecEnrol == InitEnrol /\ [][NextEnrol]_vars

\* ------------------------------------------------------------------------
\* Specification of the integrity verifier over a populated registry:
\* two registered nodes (app and db) and both role-pair policies
\* ------------------------------------------------------------------------
ReportingKeys == {"K1"}

RegisteredNodes ==
    LET first == NewNode("h1", "app", allocate_ip(<< >>, MaxHostBits))
        one == [k \in {"K1"} |-> first]
        second == NewNode("h2", "db", allocate_ip(one, MaxHostBits))
    IN  [k \in {"K1", "K2"} |-> IF k = "K1" THEN first ELSE second]

InitIntegrity ==
    /\ hostBits = MaxHostBits
    /\ \E v \in Versions \cup {None} :
          nodes = [RegisteredNodes EXCEPT !["K1"].agent_version = v]
    /\ reqs = [r \in Requests |-> IdleReq]
    /\ policies = PolicySpace
    /\ configVersion = 0
    /\ global_expected_hash = None
    /\ known_good_hashes = << >>
    /\ InitAgents
    /\ InitWs
    /\ lastOp = Op("init", None, None, TRUE, None, None)

NextIntegrity ==
    \/ \E k \in ReportingKeys, r \in Hashes : VerifyIntegrity(k, r)
    \/ \E k \in ReportingKeys : ApproveReportedHash(k)
    \/ \E k \in ReportingKeys, h \in Hashes : SetAgentHash(k, h)
    \/ \E h \in Hashes : SetGlobalExpectedHash(h)
    \/ \E v \in Versions, h \in Hashes : RegisterKnownHash(v, h)
    \/ \E k \in PublicKeys, st \in Statuses : UpdateNode(k, st, None)
    \/ \E k \in PublicKeys : ApproveNode(k)
    \/ \E k \in PublicKeys : SuspendNode(k)
    \/ \E k \in PublicKeys : RevokeNode(k)

SpecIntegrity == InitIntegrity /\ [][NextIntegrity]_vars

\* ------------------------------------------------------------------------
\* Specification of the node agent channels: agents of two active nodes
\* connect, reconnect and close; the server pushes config notifications
\* ------------------------------------------------------------------------
NotifyTargets == {AllAgents} \cup { Listed(hs) : hs \in SUBSET Hostnames }

InitAgentWs ==
    /\ hostBits = MaxHostBits
    /\ nodes = [k \in PublicKeys |-> WithStatus(RegisteredNodes[k], "active")]
    /\ reqs = [r \in Requests |-> IdleReq]
    /\ policies = {}
    /\ configVersion = 0
    /\ global_expected_hash = None
    /\ known_good_hashes = << >>
    /\ InitAgents
    /\ InitWs
    /\ lastOp = Op("init", None, None, TRUE, None, None)

NextAgentWs ==
    \/ \E w \in AgentSockets, h \in Hostnames, k \in PublicKeys :
          AgentConnect(w, h, k)
    \/ \E w \in AgentSockets : AgentClose(w)
    \/ \E w \in AgentSockets : AgentHandlerExit(w)
    \/ \E t \in NotifyTargets, broken \in SUBSET Hostnames :
          NotifyConfigUpdate(t, broken)

SpecAgentWs == InitAgentWs /\ [][NextAgentWs]_vars

\* ------------------------------------------------------------------------
\* Specification of the node agent channels under the node lifecycle: agents
\* connect and close while an admin changes or deletes their nodes
\* ------------------------------------------------------------------------
\* the node whose status the admin changes
LifecycleTargets == {"K1"}

NextAgentLifecycle ==
    \/ \E w \in AgentSockets, h \in Hostnames, k \in PublicKeys :
          AgentConnect(w, h, k)
    \/ \E w \in AgentSockets : AgentClose(w)
    \/ \E w \in AgentSockets : AgentHandlerExit(w)
    \/ \E k \in LifecycleTargets, st \in Statuses : UpdateNode(k, st, None)
    \/ \E k \in LifecycleTargets : DeleteNode(k)
    \/ \E h \in Hostnames, ok \in BOOLEAN :
          OnNodeStatusChanged(h, IF ok THEN {} ELSE {h})

SpecAgentLifecycle == InitAgentWs /\ [][NextAgentLifecycle]_vars

\* ------------------------------------------------------------------------
\* Specification of the configuration version and of the agent's sync
\* ------------------------------------------------------------------------
InitConfig ==
    /\ hostBits = MaxHostBits
    /\ nodes = RegisteredNodes
    /\ reqs = [r \in Requests |-> IdleReq]
    /\ policies = {}
    /\ configVersion \in {NoRow, 0}
    /\ global_expected_hash = None
    /\ known_good_hashes = << >>
    /\ \E reg \in BOOLEAN :
          zta = [registered |-> reg, current_config_version |-> 0]
    /\ hc = [mode |-> "ws", last_version |-> 0, applied |-> 0]
    /\ inbox = 0
    /\ InitHub
    /\ InitBus
    /\ InitWs
    /\ lastOp = Op("init", None, None, TRUE, None, None)

NextConfig ==
    \/ \E t \in ConfigEvents : ConfigEvent(t)
    \/ \E p \in PolicySpace : CreatePolicy(p)
    \/ \E p \in PolicySpace : DeletePolicy(p)
    \/ \E ok \in BOOLEAN : SyncConfig(ok)
    \/ \E ok \in BOOLEAN : HandleConfigUpdated(ok)
    \/ StartPolling
    \/ \E ok \in BOOLEAN : PollConfig(ok)

SpecConfig == InitConfig /\ [][NextConfig]_vars

\* the agents' loops keep running and their fetches keep succeeding
SpecConfigLive ==
    /\ InitConfig
    /\ [][NextConfig]_vars
    /\ WF_vars(SyncConfig(TRUE))
    /\ WF_vars(HandleConfigUpdated(TRUE))
    /\ WF_vars(PollConfig(TRUE))

\* ------------------------------------------------------------------------
\* Specification of the hybrid client: the push library may be missing and
\* any connection attempt may fail; the client's loop keeps running
\* ------------------------------------------------------------------------
InitHybrid ==
    /\ hostBits = MaxHostBits
    /\ nodes = RegisteredNodes
    /\ reqs = [r \in Requests |-> IdleReq]
    /\ policies = {}
    /\ configVersion \in {NoRow, 0}
    /\ global_expected_hash = None
    /\ known_good_hashes = << >>
    /\ zta = [registered |-> TRUE, current_config_version |-> 0]
    /\ hc = [mode |-> "ws", last_version |-> 0, applied |-> 0]
    /\ inbox = 0
    /\ InitHub
    /\ InitBus
    /\ connections = << >>
    /\ agentTasks = [w \in AgentSockets |-> NoTask]
    /\ \E library \in BOOLEAN : wsClient = NewClient(library)
    /\ hubHandler = NewHandler
    /\ chain = << >>
    /\ peers_cache = << >>
    /\ lastOp = Op("init", None, None, TRUE, None, None)

HybridStep ==
    \/ HybridRun
    \/ \E ok \in BOOLEAN : WsConnect(ok)
    \/ \E ok \in BOOLEAN : WsReconnect(ok)
    \/ HybridFallback
    \/ \E ok \in BOOLEAN : PollConfig(ok)

NextHybrid ==
    \/ HybridStep
    \/ WsDisconnected
    \/ \E t \in ConfigEvents : ConfigEvent(t)
    \/ \E p \in PolicySpace : CreatePolicy(p)
    \/ \E p \in PolicySpace : DeletePolicy(p)

SpecHybrid == InitHybrid /\ [][NextHybrid]_vars /\ WF_vars(HybridStep)

\* ------------------------------------------------------------------------
\* Specification of the reconnect backoff of both agent-side clients
\* ------------------------------------------------------------------------
NextBackoff ==
    \/ HybridRun
    \/ \E ok \in BOOLEAN : WsConnect(ok)
    \/ WsDisconnected
    \/ \E ok \in BOOLEAN : WsReconnect(ok)
    \/ \E ok \in BOOLEAN : ConnectAndListen(ok)
    \/ ListenEnds

SpecBackoff == InitHybrid /\ [][NextBackoff]_vars

\* ------------------------------------------------------------------------
\* Specification of the hub command channel
\* ------------------------------------------------------------------------
InitChannel ==
    /\ hostBits = MaxHostBits
    /\ nodes = RegisteredNodes
    /\ reqs = [r \in Requests |-> IdleReq]
    /\ policies = {}
    /\ configVersion = 0
    /\ global_expected_hash = None
    /\ known_good_hashes = << >>
    /\ InitAgents
    /\ InitWs
    /\ lastOp = Op("init", None, None, TRUE, None, None)

NextChannel ==
    \/ \E s \in Senders : SendCommand(s)
    \/ \E s \in Senders : SendLocked(s)
    \/ \E s \in Senders, ok \in BOOLEAN : SendFrame(s, ok)
    \/ \E s \in Senders : SendTimeout(s)
    \/ \E s \in Senders : SendReturn(s)
    \/ \E w \in Sockets, x \in FrameIds : HandleResponse(w, x)
    \/ \E w \in Sockets, key_ok \in BOOLEAN : HubConnect(w, key_ok)
    \/ \E w \in Sockets : HubConnectAcquire(w)
    \/ \E w \in Sockets : HubReplace(w)
    \/ \E w \in Sockets : HubEndpointExit(w)
    \/ \E w \in Sockets : HubDisconnectAcquire(w)

SpecChannel == InitChannel /\ [][NextChannel]_vars

\* ------------------------------------------------------------------------
\* Specification of the node firewall and of applying a configuration
\* ------------------------------------------------------------------------
NextFirewall ==
    \E rules \in AclLists, flushed \in BOOLEAN,
       trailing \in 0 .. Len(TrailingRules) :
       \E failing \in SUBSET (1 .. Len(rules)) :
          ApplyRules(rules, flushed, failing, trailing)

SpecFirewall == InitChannel /\ [][NextFirewall]_vars

NextApply ==
    \E new_version \in 0 .. MaxVersion, peers \in PeerOutcomes,
          rules \in ConfigAcl, flushed \in BOOLEAN,
          trailing \in 0 .. Len(TrailingRules) :
          \E failing \in SUBSET (1 .. Len(rules)) :
             SyncConfigApply(new_version, peers, rules, flushed, failing,
                             trailing)

SpecApply == InitChannel /\ [][NextApply]_vars

\* ------------------------------------------------------------------------
\* Specification of command dispatch: the hub agent stays connected, the
\* REST endpoints send commands, the hub agent executes and replies
\* ------------------------------------------------------------------------
IpOf(k) == RegisteredNodes[k].overlay_ip

\* peers the hub may hold before a sync: any subset of the keys, each with
\* its node's address or with a stale one
PriorPeerSets ==
    { [k \in S |-> <<IpOf(k) + d, 32>>] : S \in SUBSET PublicKeys, d \in {0, 2} }

InitDispatch ==
    /\ hostBits = MaxHostBits
    /\ \E st1, st2 \in {"active", "suspended"} :
          nodes = [k \in PublicKeys |->
                     WithStatus(RegisteredNodes[k],
                                IF k = "K1" THEN st1 ELSE st2)]
    /\ reqs = [r \in Requests |-> IdleReq]
    /\ policies = {}
    /\ configVersion = 0
    /\ global_expected_hash = None
    /\ known_good_hashes = << >>
    /\ zta = [registered |-> TRUE, current_config_version |-> 0]
    /\ hc = [mode |-> "ws", last_version |-> 0, applied |-> 0]
    /\ inbox = 0
    /\ hubConn = HubAgentSocket
    /\ hubLock = None
    /\ hubCounter = 0
    /\ pending = << >>
    /\ senders = [s \in Senders |-> IdleSender]
    /\ sockets = [w \in Sockets \cup {HubAgentSocket} |->
                    IF w = HubAgentSocket THEN "open" ELSE "closed"]
    /\ calls = [s \in Senders |-> NoCall]
    /\ toHub = << >>
    /\ fromHub = << >>
    /\ hubPeers \in PriorPeerSets
    /\ InitBus
    /\ InitWs
    /\ lastOp = Op("init", None, None, TRUE, None, None)

\* hub_ws_manager.sync_peers / get_peer_stats: send_command with the call
CallSendCommand(s) ==
    /\ calls[s] # NoCall
    /\ SendCommand(s)

NextDispatch ==
    \/ \E s \in Senders : TriggerSync(s)
    \/ \E s \in Senders : GetHubPeers(s)
    \/ \E s \in Senders, k \in PublicKeys : OnNodeRegistered(s, k)
    \/ \E s \in Senders, k \in PublicKeys : OnNodeRevoked(s, k)
    \/ \E s \in Senders : CallSendCommand(s)
    \/ \E s \in Senders, ok \in BOOLEAN : SendFrame(s, ok)
    \/ \E s \in Senders : SendTimeout(s)
    \/ \E s \in Senders : SendReturn(s)
    \/ HubHandleMessage
    \/ EndpointReceive

SpecDispatch == InitDispatch /\ [][NextDispatch]_vars

\* ------------------------------------------------------------------------
\* Specification of the hub's peer synchronisation
\* ------------------------------------------------------------------------
\* peer lists a sync_peers command may carry
DesiredPeers ==
    { { [public_key |-> k, allowed_ips |-> <<IpOf(k) + d, 32>>] : k \in S } :
        S \in SUBSET PublicKeys, d \in {0, 2} }

NextPeers ==
    \E desired \in DesiredPeers, failing \in SUBSET PublicKeys :
       SyncPeersCommand(desired, failing)

SpecPeers == InitDispatch /\ [][NextPeers]_vars

\* ------------------------------------------------------------------------
\* Specification of admin requests: requests with any token reach the node
\* and hub endpoints while the hub agent is connected
\* ------------------------------------------------------------------------
AdminCallers == {"t1"}
AdminTargets == {"K1"}
AdminStatuses == {"active", "suspended"}

NextAdmin ==
    \/ \E token \in Tokens, k \in AdminTargets, st \in AdminStatuses :
          UpdateNodeRequest(token, k, st)
    \/ \E token \in Tokens, s \in AdminCallers : TriggerSyncRequest(token, s)
    \/ \E token \in Tokens, s \in AdminCallers : GetHubPeersRequest(token, s)
    \/ \E s \in AdminCallers : CallSendCommand(s)
    \/ \E s \in AdminCallers, ok \in BOOLEAN : SendFrame(s, ok)
    \/ \E s \in AdminCallers : SendTimeout(s)
    \/ \E s \in AdminCallers : SendReturn(s)
    \/ HubHandleMessage
    \/ EndpointReceive

SpecAdmin == InitDispatch /\ [][NextAdmin]_vars

\* ------------------------------------------------------------------------
\* Specification of the event bus: components subscribe handlers to one
\* event type while the application starts, then events are published
\* ------------------------------------------------------------------------
LoopContexts == {"running", "stopped", "none"}
PublishVariants == {"publish", "publish_async"}
SubscribedType == "NodeActivated"
PublishedTypes == {"NodeActivated"}

InitBusSpec ==
    /\ hostBits = MaxHostBits
    /\ nodes = << >>
    /\ reqs = [r \in Requests |-> IdleReq]
    /\ policies = {}
    /\ configVersion = 0
    /\ global_expected_hash = None
    /\ known_good_hashes = << >>
    /\ zta = [registered |-> TRUE, current_config_version |-> 0]
    /\ hc = [mode |-> "ws", last_version |-> 0, applied |-> 0]
    /\ inbox = 0
    /\ InitHub
    /\ InitBus
    /\ InitWs
    /\ lastOp = Op("init", None, None, TRUE, None, None)

NextBus ==
    \/ \E h \in BusHandlers, p \in EventPriority, r \in 0 .. MaxRetry :
          Subscribe(SubscribedType, h, p, r)
    \/ \E v \in PublishVariants, t \in PublishedTypes, ctx \in LoopContexts :
          Publish(v, t, ctx)
    \/ \E i \in 1 .. Cardinality(BusHandlers), ok \in BOOLEAN : TaskStep(i, ok)

SpecBus == InitBusSpec /\ [][NextBus]_vars

\* ------------------------------------------------------------------------
\* Specification of the registered handlers: register_event_handlers has
\* run, events of every type are published
\* ------------------------------------------------------------------------
InitEvents ==
    /\ hostBits = MaxHostBits
    /\ nodes = << >>
    /\ reqs = [r \in Requests |-> IdleReq]
    /\ policies = {}
    /\ configVersion \in {NoRow, 0}
    /\ global_expected_hash = None
    /\ known_good_hashes = << >>
    /\ zta = [registered |-> TRUE, current_config_version |-> 0]
    /\ hc = [mode |-> "ws", last_version |-> 0, applied |-> 0]
    /\ inbox = 0
    /\ InitHub
    /\ bus_handlers = register_event_handlers
    /\ bus_tasks = << >>
    /\ bus_log = << >>
    /\ bus_pub = NoPublication
    /\ eventStore = {}
    /\ InitWs
    /\ lastOp = Op("init", None, None, TRUE, None, None)

NextEvents ==
    \E v \in PublishVariants, t \in EventTypes, ctx \in LoopContexts :
        Publish(v, t, ctx)

SpecEvents == InitEvents /\ [][NextEvents]_vars

\* ------------------------------------------------------------------------
\* Specification of the push handlers: register_event_handlers and
\* register_websocket_handlers have run, in either order, and the events
\* that change configuration are published
\* ------------------------------------------------------------------------
ConfigEventTypes == {"PolicyUpdated", "NodeRegistered", "NodeRevoked"}

InitPush ==
    /\ hostBits = MaxHostBits
    /\ nodes = << >>
    /\ reqs = [r \in Requests |-> IdleReq]
    /\ policies = {}
    /\ configVersion \in {NoRow, 0}
    /\ global_expected_hash = None
    /\ known_good_hashes = << >>
    /\ zta = [registered |-> TRUE, current_config_version |-> 0]
    /\ hc = [mode |-> "ws", last_version |-> 0, applied |-> 0]
    /\ inbox = 0
    /\ InitHub
    /\ bus_handlers \in
          { register_websocket_handlers(register_event_handlers),
            SubscribeAll(register_websocket_handlers(<< >>),
                         RegisteredSubscriptions) }
    /\ bus_tasks = << >>
    /\ bus_log = << >>
    /\ bus_pub = NoPublication
    /\ eventStore = {}
    /\ InitWs
    /\ lastOp = Op("init", None, None, TRUE, None, None)

NextPush ==
    \/ \E v \in PublishVariants, t \in ConfigEventTypes, ctx \in LoopContexts :
          Publish(v, t, ctx)
    \/ \E i \in 1 .. Cardinality(PushHandlers) : TaskStep(i, TRUE)

SpecPush == InitPush /\ [][NextPush]_vars

\* ------------------------------------------------------------------------
\* Properties of the registry
\* ------------------------------------------------------------------------

\* C1: no two distinct nodes hold the same overlay_ip, a node keeps its
\* address while it exists, and a newly created node never receives an
\* address that a node of any status still holds.
C1_OverlayIpUnique ==
    /\ [](\A k, m \in DOMAIN nodes :
            k # m => nodes[k].overlay_ip # nodes[m].overlay_ip)
    /\ [][\A k \in DOMAIN nodes' :
            IF k \in DOMAIN nodes
            THEN nodes'[k].overlay_ip = nodes[k].overlay_ip
            ELSE nodes'[k].overlay_ip \notin UsedIps(nodes)]_vars

C1_Witness ==
    /\ Cardinality(DOMAIN nodes) = 2
    /\ lastOp.action = "created"
    /\ \E k \in DOMAIN nodes : nodes[k].status \in {"suspended", "revoked"}

FreeIps(ns, h) == (0 .. (Pow2(h) - 1)) \ (ReservedIps(h) \cup UsedIps(ns))

MinOf(S) == CHOOSE x \in S : \A y \in S : x <= y

\* C2: an allocation returns the numerically lowest address of the network
\* that is neither reserved (.0, .1, broadcast) nor held by a node, the
\* first one in an empty registry being .2; the request fails as pool
\* exhausted exactly when no such address remains, and then creates no node.
C2_AllocateLowestFree ==
    [][/\ \A r \in Requests :
            (reqs[r].pc = "idle" /\ reqs'[r].pc = "allocated") =>
                /\ FreeIps(nodes, hostBits) # {}
                /\ reqs'[r].new_ip = MinOf(FreeIps(nodes, hostBits))
                /\ (nodes = << >> => reqs'[r].new_ip = 2)
       /\ lastOp'.action = "pool_exhausted" =>
                /\ FreeIps(nodes, hostBits) = {}
                /\ nodes' = nodes
                /\ reqs' = reqs
      ]_vars

C2_Witness ==
    /\ lastOp.action = "pool_exhausted"
    /\ nodes # << >>
    /\ \E k \in DOMAIN nodes : nodes[k].overlay_ip = 2

\* ------------------------------------------------------------------------
\* Properties of the integrity verifier and of the compiled output
\* ------------------------------------------------------------------------

\* C3: a node whose status is revoked or suspended is never the src_ip of
\* an ACL entry compiled for any target node, and is never in the peer list
\* sent to the hub in sync_peers.
C3_NoRevokedSourceOrPeer ==
    \A s \in DOMAIN nodes :
        nodes[s].status \in {"revoked", "suspended"} =>
            /\ \A t \in DOMAIN nodes :
                 \A rule \in build_config_for_node(nodes, policies, t) :
                    rule.src_ip # nodes[s].overlay_ip
            /\ \A p \in SyncPeers(nodes) : p.public_key # s

NoExpectedHashFromAnySource(n) ==
    /\ n.agent_hash = None
    /\ n.agent_version = None \/ n.agent_version \notin DOMAIN known_good_hashes
    /\ global_expected_hash = None

\* C6: with an expected hash configured, a mismatching report raises
\* hash_mismatch_count by exactly one and clears hash_verified; reaching 3
\* or 4 suspends (action suspended), reaching 5 or more revokes (action
\* revoked), below 3 the action is mismatch_warning and the status is kept;
\* with no expected hash from any source a report changes neither the
\* status nor the count.
C6_MismatchEscalation ==
    [][lastOp'.op = "verify_integrity" =>
        LET k == lastOp'.key
            n == nodes[k]
            m == nodes'[k]
            e == get_expected_hash(n, known_good_hashes, global_expected_hash)
        IN  /\ (~NoExpectedHashFromAnySource(n) /\ lastOp'.arg # e) =>
                /\ m.hash_mismatch_count = n.hash_mismatch_count + 1
                /\ m.hash_verified = FALSE
                /\ m.hash_mismatch_count \in {3, 4} =>
                      m.status = "suspended" /\ lastOp'.action = "suspended"
                /\ m.hash_mismatch_count >= 5 =>
                      m.status = "revoked" /\ lastOp'.action = "revoked"
                /\ m.hash_mismatch_count < 3 =>
                      m.status = n.status /\ lastOp'.action = "mismatch_warning"
            /\ NoExpectedHashFromAnySource(n) =>
                /\ m.status = n.status
                /\ m.hash_mismatch_count = n.hash_mismatch_count
      ]_vars

C6_Witness ==
    /\ lastOp.op = "verify_integrity"
    /\ lastOp.action = "revoked"
    /\ nodes[lastOp.key].hash_mismatch_count > HASH_MISMATCH_REVOKE_THRESHOLD
    /\ nodes[lastOp.key].status = "revoked"

MatchingReport(k) ==
    /\ lastOp'.op = "verify_integrity"
    /\ lastOp'.key = k
    /\ lastOp'.arg = get_expected_hash(nodes[k], known_good_hashes,
                                       global_expected_hash)
    /\ lastOp'.action = "verified"
    /\ nodes'[k].hash_verified

AdminApproval(k) ==
    /\ lastOp'.op = "approve_reported_hash"
    /\ lastOp'.key = k
    /\ lastOp'.ok

\* C7 as stated: hash_mismatch_count only ever decreases by a reset to 0,
\* made by a report equal to the expected hash or by admin approval of the
\* reported hash, and by no other operation.
C7_ResetOnlyByMatchOrApproval ==
    [][\A k \in DOMAIN nodes \cap DOMAIN nodes' :
          nodes'[k].hash_mismatch_count < nodes[k].hash_mismatch_count =>
              /\ nodes'[k].hash_mismatch_count = 0
              /\ MatchingReport(k) \/ AdminApproval(k)
      ]_vars

\* C7 amended: ... or by an admin setting the node's expected hash
\* (set_agent_hash), which also resets the count to 0.
C7_ResetOnlyByMatchApprovalOrSetHash ==
    [][\A k \in DOMAIN nodes \cap DOMAIN nodes' :
          nodes'[k].hash_mismatch_count < nodes[k].hash_mismatch_count =>
              /\ nodes'[k].hash_mismatch_count = 0
              /\ \/ MatchingReport(k)
                 \/ AdminApproval(k)
                 \/ lastOp'.op = "set_agent_hash" /\ lastOp'.key = k
      ]_vars

C7_Witness ==
    /\ lastOp.op = "verify_integrity"
    /\ lastOp.action = "verified"
    /\ nodes[lastOp.key].status = "revoked"
    /\ nodes[lastOp.key].hash_mismatch_count = 0
    /\ nodes[lastOp.key].hash_verified

\* C8: approve_reported_hash on a node with a last_reported_hash succeeds
\* and leaves agent_hash = last_reported_hash, hash_verified true and
\* hash_mismatch_count 0; without a reported hash it fails and changes no
\* field of the node.
C8_ApproveReportedHash ==
    [][lastOp'.op = "approve_reported_hash" =>
        LET k == lastOp'.key
            n == nodes[k]
            m == nodes'[k]
        IN  IF n.last_reported_hash # None
            THEN /\ lastOp'.ok
                 /\ m.agent_hash = n.last_reported_hash
                 /\ m.last_reported_hash = n.last_reported_hash
                 /\ m.hash_verified
                 /\ m.hash_mismatch_count = 0
                 /\ m = [n EXCEPT !.agent_hash = m.agent_hash,
                                  !.hash_verified = TRUE,
                                  !.hash_mismatch_count = 0]
            ELSE /\ ~lastOp'.ok
                 /\ nodes' = nodes
      ]_vars

C8_Witness ==
    /\ lastOp.op = "approve_reported_hash"
    /\ lastOp.ok
    /\ nodes[lastOp.key].agent_hash = nodes[lastOp.key].last_reported_hash
    /\ nodes[lastOp.key].status = "suspended"
    /\ nodes[lastOp.key].hash_mismatch_count = 0

\* ------------------------------------------------------------------------
\* Properties of the configuration version and of the agent's sync
\* ------------------------------------------------------------------------

\* C4: the stored config_version never decreases.
C4_ConfigVersionMonotone ==
    [][configVersion' >= configVersion]_vars

C4_Witness ==
    /\ lastOp.op = "on_config_changed"
    /\ configVersion >= 2

\* the version the component named in lastOp had last applied
LastApplied(c) ==
    IF c = "zta" THEN zta.current_config_version ELSE hc.applied

\* C5: on every path (periodic sync, polling fallback, fetch after a
\* config_updated push) the agent applies a fetched configuration only when
\* its config_version is strictly greater than the version it last applied;
\* a fetch with an equal or lower version changes nothing, and the last
\* applied version never decreases.
C5_ApplyOnlyNewerVersion ==
    [][/\ (lastOp'.op \in {"sync_config", "poll_config", "config_updated"}
            /\ lastOp'.action = "applied") =>
               lastOp'.arg > LastApplied(lastOp'.key)
       /\ zta'.current_config_version >= zta.current_config_version
       /\ hc'.applied >= hc.applied
      ]_vars

\* ------------------------------------------------------------------------
\* Properties of the hub command channel
\* ------------------------------------------------------------------------
InFlight(s) == senders[s].pc \in {"sending", "waiting"}

\* the slot of the command sent with id x is pending and not yet completed
OpenSlot(x) ==
    /\ x \in DOMAIN pending
    /\ \E s \in Senders :
          /\ InFlight(s)
          /\ CmdId(senders[s].cmd) = x
          /\ senders[s].future = "pending"

\* C9: command ids issued by send_command are strictly increasing and
\* pairwise distinct, also with concurrent senders; a response frame with
\* id X completes exactly the pending slot of the command sent with id X;
\* a frame matching no pending slot, or a slot already completed, completes
\* nothing and changes no slot.
C9_CommandIdsAndResponses ==
    /\ [](/\ \A s \in Senders : InFlight(s) => senders[s].cmd \in 1 .. hubCounter
          /\ \A x \in DOMAIN pending : x[2] \in 1 .. hubCounter
          /\ \A s, t \in Senders :
                (InFlight(s) /\ InFlight(t) /\ s # t) =>
                    senders[s].cmd # senders[t].cmd)
    /\ [][/\ hubCounter' >= hubCounter
          /\ \A s \in Senders :
                (senders'[s].cmd # senders[s].cmd /\ senders'[s].cmd # 0) =>
                    /\ senders'[s].cmd > hubCounter
                    /\ senders'[s].cmd = hubCounter'
          /\ (lastOp'.op = "send_command"
                /\ lastOp'.action \in {"registered", "AttributeError"}) =>
                    lastOp'.arg > hubCounter /\ lastOp'.arg = hubCounter'
          /\ lastOp'.op = "handle_response" =>
                LET x == lastOp'.arg IN
                /\ pending' = pending
                /\ IF OpenSlot(x)
                   THEN /\ lastOp'.ok
                        /\ \A t \in Senders :
                              senders'[t] =
                                 IF CmdId(senders[t].cmd) = x
                                 THEN [senders[t] EXCEPT !.future = "result"]
                                 ELSE senders[t]
                   ELSE /\ ~lastOp'.ok
                        /\ senders' = senders
         ]_vars

C9_Witness ==
    /\ lastOp.op = "handle_response"
    /\ lastOp.ok
    /\ hubCounter >= 2
    /\ \A s \in Senders : InFlight(s)
    /\ \E s \in Senders : senders[s].future = "result"
    /\ \E s \in Senders : senders[s].future = "pending"

\* C10: when the timeout expires before a response, send_command reports
\* TimeoutError and the slot is removed; after send_command ends by any
\* outcome its id is not in the pending map, and a response arriving later
\* for that id is ignored.
C10_SlotRemovedOnEveryOutcome ==
    /\ [](\A x \in DOMAIN pending :
             \E s \in Senders : InFlight(s) /\ CmdId(senders[s].cmd) = x)
    /\ [][/\ \A s \in Senders :
                (InFlight(s) /\ senders'[s].pc \notin {"sending", "waiting"}) =>
                    /\ CmdId(senders[s].cmd) \notin DOMAIN pending'
                    /\ lastOp'.op = "send_command"
                    /\ lastOp'.key = s
                    /\ lastOp'.arg = senders[s].cmd
                    /\ senders[s].future = "cancelled" <=>
                          lastOp'.action = "TimeoutError"
          /\ \A s \in Senders :
                (senders[s].future = "cancelled" /\ InFlight(s)) =>
                    senders'[s] \in {senders[s], IdleSender}
          /\ (lastOp'.op = "handle_response"
                /\ ~\E s \in Senders :
                      InFlight(s) /\ CmdId(senders[s].cmd) = lastOp'.arg) =>
                    /\ ~lastOp'.ok
                    /\ senders' = senders
                    /\ pending' = pending
         ]_vars

C10_Witness ==
    /\ lastOp.op = "send_command"
    /\ lastOp.action = "TimeoutError"
    /\ CmdId(lastOp.arg) \notin DOMAIN pending
    /\ hubConn # None
    /\ \E s \in Senders : InFlight(s)

\* C11: when a new hub connection is accepted while another is registered,
\* the old channel is closed with code 1000 and every command still pending
\* on the old connection is failed with a connection error at the
\* supersede, not left waiting for its timeout.
C11_SupersedeFailsPending ==
    [][(lastOp'.op = "connect" /\ lastOp'.action = "replaced") =>
          /\ lastOp'.arg = 1000
          /\ hubConn' = lastOp'.key
          /\ \A s \in Senders :
                (InFlight(s) /\ senders[s].future = "pending") =>
                    senders'[s].future = "exception"
      ]_vars

\* C12: at most one hub connection is registered; after a supersede the
\* newest accepted connection stays registered, and the commands sent on it
\* are not failed, until that channel itself closes, whenever the handler of
\* the superseded channel finishes its cleanup.
C12_NewestStaysRegistered ==
    [][\A w \in Sockets :
          (hubConn = w /\ lastOp'.key # w) =>
              \/ /\ hubConn' = w
                 /\ \A s \in Senders :
                       senders'[s].future = "exception" =>
                           senders[s].future = "exception"
              \/ /\ lastOp'.op = "connect"
                 /\ lastOp'.action = "replaced"
                 /\ hubConn' = lastOp'.key
      ]_vars

\* ------------------------------------------------------------------------
\* Properties of command dispatch and of the forced sync
\* ------------------------------------------------------------------------

\* C13: for a command sent while the hub agent is connected, the hub agent
\* runs the executor handler registered for the command's name with the
\* sent payload and replies with a result frame carrying the same command
\* id, and the endpoint passes that reply to handle_response so that the
\* sender's slot is completed.
C13_DispatchAndReply ==
    [][/\ lastOp'.op = "_handle_message" =>
             /\ lastOp'.key = Head(toHub).command
             /\ fromHub'[Len(fromHub')].command_id = Head(toHub).id
       /\ (fromHub # << >> /\ fromHub' = Tail(fromHub)) =>
             /\ lastOp'.op = "handle_response"
             /\ lastOp'.arg \in DOMAIN pending => lastOp'.ok
      ]_vars

ActiveKeys == { k \in DOMAIN nodes : nodes[k].status = "active" }

\* C20: one forced sync with the hub connected and every tunnel operation
\* succeeding leaves the hub peer set equal to exactly the
\* (public_key, overlay_ip/32) pairs of the active nodes, and the reported
\* diff counts the stale peers as removed, the missing ones as added and
\* the remaining desired peers as updated or unchanged.
C20_ForcedSyncConverges ==
    [][(lastOp'.op = "_handle_message"
          /\ Head(toHub).command = "sync_peers") =>
             LET data == fromHub'[Len(fromHub')].data IN
             /\ hubPeers' = [k \in ActiveKeys |-> <<nodes[k].overlay_ip, 32>>]
             /\ data.removed = Cardinality(DOMAIN hubPeers \ ActiveKeys)
             /\ data.added = Cardinality(ActiveKeys \ DOMAIN hubPeers)
             /\ data.updated + data.unchanged =
                   Cardinality(ActiveKeys \cap DOMAIN hubPeers)
      ]_vars

\* ------------------------------------------------------------------------
\* Properties of the event bus
\* ------------------------------------------------------------------------
CurrentHandlers == HandlersOf(bus_handlers, bus_pub.type)

RegistrationOf(h) ==
    CurrentHandlers[CHOOSE i \in 1 .. Len(CurrentHandlers) :
                       CurrentHandlers[i].handler = h]

\* log positions of the calls of handler h for the current event
CallsOf(h) == { i \in 1 .. Len(bus_log) : bus_log[i].handler = h }

\* position i of the log is the first call of its handler
IsStart(i) == \A j \in 1 .. i - 1 : bus_log[j].handler # bus_log[i].handler

OrderedBefore(a, b) ==
    \/ a.priority < b.priority
    \/ a.priority = b.priority /\ a.order < b.order

\* the publication has returned and no coroutine of the event is left
Completed == bus_pub.state = "returned" /\ AllDone(bus_tasks)

FailedEveryAttempt(h) ==
    /\ CallsOf(h) # {}
    /\ \A i \in CallsOf(h) : ~bus_log[i].ok

\* C14: for every published event, under publish and under publish_async,
\* the handlers of its type start in ascending priority value, handlers of
\* equal priority in subscription order, sync and async handlers alike.
C14_HandlersStartInPriorityOrder ==
    \A i, j \in 1 .. Len(bus_log) :
        (i < j /\ IsStart(i) /\ IsStart(j)) =>
            OrderedBefore(RegistrationOf(bus_log[i].handler),
                          RegistrationOf(bus_log[j].handler))

\* C15: once an event is processed, a handler subscribed with retry_count r
\* has been called at least once and at most r+1 times; exactly r+1 times
\* when every call threw, and not again after its first successful call.
C15_RetryCountBoundsInvocations ==
    Completed =>
        \A x \in 1 .. Len(CurrentHandlers) :
            LET registration == CurrentHandlers[x]
                calls_ == CallsOf(registration.handler)
                n == Cardinality(calls_)
            IN  /\ n >= 1
                /\ n <= registration.retry_count + 1
                /\ FailedEveryAttempt(registration.handler) =>
                      n = registration.retry_count + 1
                /\ \A i \in calls_ :
                      bus_log[i].ok => \A j \in calls_ : j <= i

\* no event loop in the publishing thread: a coroutine handler cannot run
\* there, whatever the other handlers do
Runnable(registration) == ~(registration.is_async /\ bus_pub.ctx = "none")

\* C16: a handler that throws on every attempt never keeps the handlers
\* ordered after it from running for the same event, and no failure reaches
\* the publisher: publish and publish_async return normally.
C16_FailureDoesNotStopLaterHandlers ==
    /\ bus_pub.state # "raised"
    /\ Completed =>
          \A x, y \in 1 .. Len(CurrentHandlers) :
              (x < y /\ FailedEveryAttempt(CurrentHandlers[x].handler)
                     /\ Runnable(CurrentHandlers[y])) =>
                  CallsOf(CurrentHandlers[y].handler) # {}

C16_Witness ==
    /\ Completed
    /\ \E x, y \in 1 .. Len(CurrentHandlers) :
          /\ x < y
          /\ FailedEveryAttempt(CurrentHandlers[x].handler)
          /\ Cardinality(CallsOf(CurrentHandlers[x].handler)) >= 2
          /\ CallsOf(CurrentHandlers[y].handler) # {}

\* C17: every event published on the bus, whatever its type, has a row with
\* its id in the EventStore, written by the persistence handler.
C17_EveryEventPersisted ==
    bus_pub.state = "returned" =>
        \A e \in 1 .. bus_pub.id : e \in eventStore

\* ------------------------------------------------------------------------
\* Properties of the configuration version and the registry mutations
\* ------------------------------------------------------------------------
\* the step is a successful mutation that changes what the compiler returns
ChangesCompiledOutput ==
    \/ lastOp'.op = "register" /\ lastOp'.ok /\ DOMAIN nodes' # DOMAIN nodes
    \/ lastOp'.op \in {"approve_node", "suspend_node", "revoke_node"}
    \/ /\ lastOp'.op \in {"update_node", "verify_integrity"}
       /\ nodes'[lastOp'.key].status # nodes[lastOp'.key].status
    \/ lastOp'.op \in {"create_policy", "delete_policy"}

\* C18: every successful mutation that changes compiled output (registration,
\* approval, suspension or revocation by an admin or by the verifier, policy
\* create, update or delete) increments config_version, also on a registry
\* that has no version yet.
C18_MutationIncrementsVersion ==
    [][ChangesCompiledOutput =>
          (configVersion' # NoRow /\ configVersion' > configVersion)]_vars

\* C19: after config_version was incremented, every running agent eventually
\* fetches the configuration, sees a version above the one it applied last
\* and applies it: its applied version catches up with the version.
C19_AgentsEventuallyApply ==
    \A v \in 1 .. MaxVersion :
        (configVersion = v) ~>
            /\ zta.registered => zta.current_config_version >= v
            /\ hc.applied >= v

\* ------------------------------------------------------------------------
\* Properties of the hub's event handlers
\* ------------------------------------------------------------------------
\* C21: a NodeRegistered event for an active node, handled while the hub
\* agent is connected, sends add_peer with the node's public_key and
\* overlay_ip/32; a NodeRevoked event sends remove_peer with the node's
\* public_key.
C21_EventsCommandTheHub ==
    [][/\ (lastOp'.op = "on_node_registered" /\ hubConn # None
             /\ nodes[lastOp'.key].status = "active") =>
            calls'[lastOp'.arg] =
                AddPeerCall(lastOp'.key, nodes[lastOp'.key].overlay_ip)
       /\ (lastOp'.op = "on_node_revoked" /\ hubConn # None) =>
            calls'[lastOp'.arg] = RemovePeerCall(lastOp'.key)
      ]_vars

\* ------------------------------------------------------------------------
\* Properties of registration
\* ------------------------------------------------------------------------
\* C22: two registrations with distinct (hostname, public_key) that overlap
\* both complete: the commit of a request whose hostname and public_key no
\* node holds succeeds, and the new node holds the lowest address that was
\* free at the commit, so the two receive the two lowest free addresses.
C22_ConcurrentRegistrationsComplete ==
    [][\A r \in Requests :
          (/\ reqs[r].pc = "allocated"
           /\ reqs'[r].pc = "idle"
           /\ reqs[r].public_key \notin DOMAIN nodes
           /\ \A m \in DOMAIN nodes : nodes[m].hostname # reqs[r].hostname) =>
              /\ lastOp'.ok
              /\ reqs[r].public_key \in DOMAIN nodes'
              /\ nodes'[reqs[r].public_key].overlay_ip =
                    MinOf(FreeIps(nodes, hostBits))
      ]_vars

\* ------------------------------------------------------------------------
\* Properties of enrolment
\* ------------------------------------------------------------------------
CommitStep == \E r \in Requests : reqs[r].pc = "allocated" /\ reqs'[r].pc = "idle"

\* a registration request for (h, k) starts in this step
RegistrationStarts(h, k) ==
    /\ ~CommitStep
    /\ lastOp'.op \in {"register", "allocate_ip", "register_node"}
    /\ lastOp'.key = k
    /\ lastOp'.arg = h

\* C23: a registration with the hostname and public key of a node that
\* exists returns that node's id and overlay_ip, creates no node and leases
\* no address.
C23_RegistrationIdempotent ==
    [][\A k \in DOMAIN nodes :
          RegistrationStarts(nodes[k].hostname, k) =>
             /\ lastOp'.ok
             /\ lastOp'.action = "existing"
             /\ lastOp'.audit = Returned(nodes, k)
             /\ nodes' = nodes
             /\ reqs' = reqs
      ]_vars

C23_Witness ==
    /\ lastOp.op \in {"register", "register_node"}
    /\ lastOp.action = "existing"
    /\ lastOp.key \in DOMAIN nodes
    /\ nodes[lastOp.key].hostname = lastOp.arg
    /\ lastOp.audit = Returned(nodes, lastOp.key)
    /\ Cardinality(DOMAIN nodes) = 1

C25_NewChannelStaysRegistered ==
    [][/\ \A h \in DOMAIN connections :
             (/\ lastOp'.op = "agent_connect"
              /\ lastOp'.ok
              /\ lastOp'.key = h) =>
                 /\ agentTasks'[connections[h]].state # "open"
                 /\ agentTasks[connections[h]].state = "open" =>
                       agentTasks'[connections[h]].code = 1000
                 /\ connections'[h] = lastOp'.arg
       /\ \A h \in DOMAIN connections :
             (/\ lastOp'.op = "agent_disconnect"
              /\ agentTasks'[connections[h]].state = "open") =>
                 /\ h \in DOMAIN connections'
                 /\ connections'[h] = connections[h]
      ]_vars

\* the sends notify_config_update owes: the channels of the listed
\* hostnames, or every registered channel
Owed(conns, t) ==
    { conns[h] : h \in IF t.all THEN DOMAIN conns
                       ELSE t.hostnames \cap DOMAIN conns }

C27_FallsBackToPolling ==
    /\ ([](wsClient.pc # "connected")) => <>(hc.mode = "poll")
    /\ [][(lastOp'.op = "poll_config" /\ lastOp'.ok) =>
             ((lastOp'.action = "applied") <=> (lastOp'.arg > hc.last_version))
         ]_vars

\* ------------------------------------------------------------------------
\* Properties of admin authentication
\* ------------------------------------------------------------------------

\* C28: a request without the admin token is rejected, changes no node and
\* passes no command to the hub, on the node endpoints and on the hub
\* peer endpoints (forced sync, peer listing).
C28_NoEffectWithoutToken ==
    [][\A token \in Tokens \ {ADMIN_SECRET} :
          /\ \A k \in AdminTargets, st \in AdminStatuses :
                UpdateNodeRequest(token, k, st) =>
                   ~lastOp'.ok /\ nodes' = nodes /\ calls' = calls
          /\ \A s \in AdminCallers :
                (TriggerSyncRequest(token, s) \/ GetHubPeersRequest(token, s)) =>
                   ~lastOp'.ok /\ nodes' = nodes /\ calls' = calls
      ]_vars

\* ------------------------------------------------------------------------
\* Properties of the expected hash
\* ------------------------------------------------------------------------
HasVersionHash(n) ==
    n.agent_version # None /\ n.agent_version \in DOMAIN known_good_hashes

\* the hash the priority rule names for node n, None when it names none
PriorityHash(n) ==
    CASE n.agent_hash # None -> n.agent_hash
      [] n.agent_hash = None /\ HasVersionHash(n) ->
            known_good_hashes[n.agent_version]
      [] OTHER -> global_expected_hash

\* C29: a report is judged against the node's agent_hash when set,
\* otherwise against the known-good hash of its agent_version when one is
\* registered, otherwise against the global expected hash; no expected
\* hash exists only when all three are unset.
C29_ExpectedHashPriority ==
    [][lastOp'.op = "verify_integrity" =>
          LET n == nodes[lastOp'.key]
              e == PriorityHash(n)
          IN  /\ (e = None) <=> NoExpectedHashFromAnySource(n)
              /\ (lastOp'.action = "no_expected_hash") <=> (e = None)
              /\ e # None => (lastOp'.ok <=> lastOp'.arg = e)
      ]_vars

C29_Witness ==
    /\ lastOp.op = "verify_integrity"
    /\ lastOp.ok
    /\ nodes[lastOp.key].agent_hash = None
    /\ HasVersionHash(nodes[lastOp.key])
    /\ global_expected_hash # None
    /\ global_expected_hash # known_good_hashes[nodes[lastOp.key].agent_version]
    /\ lastOp.arg = known_good_hashes[nodes[lastOp.key].agent_version]

\* C30: in every state of the registry a node's is_approved is true
\* exactly when its status is active.
C30_ApprovedIffActive ==
    \A k \in DOMAIN nodes :
        nodes[k].is_approved <=> (nodes[k].status = "active")

\* C31: for a node without an expected hash, a report that is the node's
\* first writes the INTEGRITY_FIRST_REPORT audit record and a later one
\* writes none; each stores the reported hash as last_reported_hash, clears
\* hash_verified and returns no_expected_hash.
C31_FirstReportAudited ==
    [][\A k \in DOMAIN nodes :
          (/\ lastOp'.op = "verify_integrity"
           /\ lastOp'.key = k
           /\ NoExpectedHashFromAnySource(nodes[k])) =>
              /\ lastOp'.action = "no_expected_hash"
              /\ lastOp'.ok
              /\ nodes'[k].last_reported_hash = lastOp'.arg
              /\ ~nodes'[k].hash_verified
              /\ (lastOp'.audit = "INTEGRITY_FIRST_REPORT") <=>
                    (nodes[k].last_reported_hash = None)
      ]_vars

\* the lifecycle event of a status
LifecycleEvent(st) ==
    IF st = "suspended" THEN "NodeSuspended"
    ELSE IF st = "revoked" THEN "NodeRevoked"
    ELSE IF st = "active" THEN "NodeActivated"
    ELSE None

\* C32: a step of verify_integrity or of the admin's update_node that
\* changes a node's status to suspended or revoked publishes exactly one
\* event, NodeSuspended or NodeRevoked respectively.
C32_StatusChangeEmitsEvent ==
    [][\A k \in DOMAIN nodes :
          (/\ lastOp'.op \in {"update_node", "verify_integrity"}
           /\ lastOp'.key = k
           /\ nodes'[k].status # nodes[k].status
           /\ nodes'[k].status \in {"suspended", "revoked"}) =>
              /\ bus_pub'.id = bus_pub.id + 1
              /\ bus_pub'.type = LifecycleEvent(nodes'[k].status)
      ]_vars

\* ------------------------------------------------------------------------
\* Properties of the push handlers
\* ------------------------------------------------------------------------

\* C33: for one PolicyUpdated, NodeRegistered or NodeRevoked event, every
\* call of the handler that notifies the node agents comes after a call of
\* the handler that increments config_version.
C33_IncrementBeforeNotification ==
    \A j \in CallsOf("on_config_changed_ws") :
        \E i \in CallsOf("on_config_changed") : i < j

\* the schedule of waits: 1, 2, 4, 8, 16, 32, 60, 60, ...
BackoffSchedule == <<1, 2, 4, 8, 16, 32, 60>>
ScheduledWait(n) ==
    IF n < Len(BackoffSchedule) THEN BackoffSchedule[n + 1] ELSE 60

\* C34: on both agent-side clients the n-th wait since the start or the last
\* successful connect is 1, 2, 4, 8, 16, 32, 60, 60, ... seconds, the delay
\* never exceeds 60 s and is 1 s after a successful connect, and the client
\* never stops reconnecting.
C34_ReconnectBackoff ==
    [][/\ (lastOp'.op = "ws_reconnect" /\ lastOp'.action = "attempt") =>
             /\ lastOp'.audit = ScheduledWait(wsClient.waits)
             /\ lastOp'.ok => wsClient'.delay = 1
       /\ (lastOp'.op = "ws_connect" /\ lastOp'.ok) => wsClient'.delay = 1
       /\ (lastOp'.op = "connect_and_listen" /\ lastOp'.action = "slept") =>
             lastOp'.audit = ScheduledWait(hubHandler.waits)
       /\ (lastOp'.op = "connect_and_listen" /\ lastOp'.ok) =>
             hubHandler'.current_delay = 1
       /\ wsClient'.delay <= 60
       /\ hubHandler'.current_delay <= 60
       /\ (lastOp'.op = "ws_reconnect") =>
             wsClient'.pc \in {"connected", "reconnecting"}]_vars

\* both clients have waited the capped 60 s twice in a row
C34_Witness ==
    /\ wsClient.waits = MaxWaits /\ wsClient.delay = 60
    /\ hubHandler.waits = MaxWaits /\ hubHandler.current_delay = 60
    /\ lastOp.op = "ws_reconnect" /\ lastOp.audit = 60

\* the rules of a sequence that have the given score, in order
WithScore(rules, score) ==
    SelectSeq(rules, LAMBDA r : rule_priority(r) = score)

\* the chain consists of the given rules, the most specific first and equal
\* scores in input order, followed by the three trailing rules
OrderedChain(installed, rules) ==
    /\ Len(installed) = Len(rules) + 3
    /\ LET body == SubSeq(installed, 1, Len(rules)) IN
         /\ \A i, j \in 1 .. Len(rules) :
               i < j => rule_priority(body[i]) >= rule_priority(body[j])
         /\ \A r \in RuleSpace :
               WithScore(body, rule_priority(r))
                  = WithScore(rules, rule_priority(r))
    /\ installed[Len(rules) + 1] = Established
    /\ installed[Len(rules) + 2] = Ping
    /\ installed[Len(rules) + 3] = DefaultDeny

\* C35: after apply_rules on any rule list the chain holds the given rules
\* by descending specificity score, equal scores in input order, followed
\* by accept established, accept ping and the default drop as the last rule.
C35_ChainOrderedDefaultDropLast ==
    [][lastOp'.op = "apply_rules" =>
          OrderedChain(chain', lastOp'.arg)]_vars

\* the same when every iptables command of the call succeeded
AppliedCleanlyOrdered ==
    [][(lastOp'.op = "apply_rules" /\ lastOp'.ok) =>
          OrderedChain(chain', lastOp'.arg)]_vars

\* C40: the node agent records a configuration version as applied only when
\* the peer update and the ACL apply for it both succeeded.
C40_VersionRecordedOnlyWhenApplied ==
    [][(/\ lastOp'.op = "sync_apply"
        /\ zta'.current_config_version # zta.current_config_version) =>
          lastOp'.ok]_vars

\* C36: revoked is absorbing for the verifier: no hash report changes the
\* status of a revoked node, whatever the mismatch count it reaches.
C36_RevokedAbsorbing ==
    [][\A k \in DOMAIN nodes :
          (/\ lastOp'.op = "verify_integrity" /\ lastOp'.key = k
           /\ nodes[k].status = "revoked") =>
              nodes'[k].status = "revoked"]_vars

\* the steps of send_command after which the call goes on
SendInProgress == {"lock_wait", "registered", "sent"}

\* C37: send_command ends only by returning the hub's response or by raising
\* ConnectionError or TimeoutError, also when the connection is removed or
\* replaced while the call is under way, and it leaves no pending slot.
C37_SendCommandOutcomes ==
    [][(/\ lastOp'.op = "send_command"
        /\ lastOp'.action \notin SendInProgress) =>
          /\ lastOp'.action \in {"response", "ConnectionError", "TimeoutError"}
          /\ \A x \in DOMAIN pending' : pending'[x] # lastOp'.key]_vars

\* the call ends without leaving a pending slot, whatever it raises
SendCommandLeavesNoSlot ==
    [][(/\ lastOp'.op = "send_command"
        /\ lastOp'.action \notin SendInProgress) =>
          \A x \in DOMAIN pending' : pending'[x] # lastOp'.key]_vars

\* C39: every hostname in the node-channel connection map belongs to an
\* active node; a connected node that is suspended, revoked or deleted has
\* no channel registered any more.
C39_ChannelsOfActiveNodesOnly ==
    \A h \in DOMAIN connections :
        \E k \in DOMAIN nodes :
            nodes[k].hostname = h /\ nodes[k].status = "active"

\* C38: when a tunnel add, update or remove fails during sync_peers, the
\* peer is in the errors list and is not counted as added, updated or
\* removed, and the cached peer set afterwards holds only peers that are on
\* the tunnel.
C38_FailedPeerOperationsReported ==
    [][lastOp'.op = "sync_peers" =>
          LET result == lastOp'.audit IN
          /\ lastOp'.arg \subseteq result.errors
          /\ result.counts.added + result.counts.updated
             + result.counts.removed
                = result.attempted - Cardinality(lastOp'.arg)
          /\ DOMAIN peers_cache' \subseteq DOMAIN hubPeers']_vars

\* the same call when every wg command succeeded
SyncPeersCleanlyReported ==
    [][(lastOp'.op = "sync_peers" /\ lastOp'.ok) =>
          /\ DOMAIN peers_cache' = DOMAIN hubPeers'
          /\ peers_cache' = hubPeers']_vars

============================================================================
